---------------------------- MODULE Spec2Model ----------------------------
(***************************************************************************)
(* Conflict early-warning system: the risk scorer (text_cleaner.py), the   *)
(* risk classifier (conflict_predictor.py) and the early-warning detector  *)
(* (dashboard_generator.py).                                               *)
(*                                                                         *)
(* Python floats are IEEE-754 binary64.  The scorer and the detector       *)
(* compare rounded sums and products against decimal thresholds, so the    *)
(* model carries floats as exact dyadic rationals and rounds every         *)
(* operation to 53 significant bits, round-half-to-even, as the hardware   *)
(* does.  TLC integers are 32 bit, hence the multi-limb naturals below.    *)
(***************************************************************************)
EXTENDS Integers, Sequences, FiniteSets, TLC

-----------------------------------------------------------------------------
(* Multi-limb naturals: little-endian sequences of limbs in 0..Base-1,     *)
(* without leading zero limbs; <<>> is zero.                               *)

Base == 2 ^ 15

RECURSIVE SmallBitLen(_)
SmallBitLen(n) == IF n = 0 THEN 0 ELSE 1 + SmallBitLen(n \div 2)

LimbBits == SmallBitLen(Base) - 1

Limb(a, i) == IF i <= Len(a) THEN a[i] ELSE 0

RECURSIVE Trim(_)
Trim(a) ==
    IF a = <<>> THEN a
    ELSE IF a[Len(a)] = 0 THEN Trim(SubSeq(a, 1, Len(a) - 1)) ELSE a

RECURSIVE AddFrom(_, _, _, _)
AddFrom(a, b, i, c) ==
    IF i > Len(a) /\ i > Len(b)
    THEN IF c = 0 THEN <<>> ELSE <<c>>
    ELSE LET s == Limb(a, i) + Limb(b, i) + c
         IN  <<s % Base>> \o AddFrom(a, b, i + 1, s \div Base)

BigAdd(a, b) == Trim(AddFrom(a, b, 1, 0))

RECURSIVE SubFrom(_, _, _, _)
SubFrom(a, b, i, br) ==
    IF i > Len(a) THEN <<>>
    ELSE LET d == a[i] - Limb(b, i) - br
         IN  <<(d + Base) % Base>> \o SubFrom(a, b, i + 1, IF d < 0 THEN 1 ELSE 0)

\* a - b for a >= b
BigSub(a, b) == Trim(SubFrom(a, b, 1, 0))

RECURSIVE CmpFrom(_, _, _)
CmpFrom(a, b, i) ==
    IF i = 0 THEN 0
    ELSE IF a[i] > b[i] THEN 1
    ELSE IF a[i] < b[i] THEN -1
    ELSE CmpFrom(a, b, i - 1)

\* -1, 0, 1 as a < b, a = b, a > b
BigCmp(a, b) ==
    IF Len(a) > Len(b) THEN 1
    ELSE IF Len(a) < Len(b) THEN -1
    ELSE CmpFrom(a, b, Len(a))

RECURSIVE MulSmallFrom(_, _, _, _)
MulSmallFrom(a, k, i, c) ==
    IF i > Len(a)
    THEN IF c = 0 THEN <<>> ELSE <<c>>
    ELSE LET p == a[i] * k + c
         IN  <<p % Base>> \o MulSmallFrom(a, k, i + 1, p \div Base)

\* a * k for 0 <= k < Base
MulSmall(a, k) == Trim(MulSmallFrom(a, k, 1, 0))

RECURSIVE MulFrom(_, _, _)
MulFrom(a, b, j) ==
    IF j > Len(b) THEN <<>>
    ELSE AddFrom(MulSmallFrom(a, b[j], 1, 0), <<0>> \o MulFrom(a, b, j + 1), 1, 0)

BigMul(a, b) == Trim(MulFrom(a, b, 1))

RECURSIVE DivFrom(_, _, _, _)
DivFrom(a, d, i, r) ==
    IF i = 0 THEN [q |-> <<>>, r |-> r]
    ELSE LET cur  == r * Base + a[i]
             rest == DivFrom(a, d, i - 1, cur % d)
         IN  [q |-> rest.q \o <<cur \div d>>, r |-> rest.r]

\* quotient and remainder of a by d, 0 < d < Base
DivSmall(a, d) ==
    LET qr == DivFrom(a, d, Len(a), 0) IN [q |-> Trim(qr.q), r |-> qr.r]

Zeros(n) == [i \in 1..n |-> 0]

Shl(a, s) ==
    IF a = <<>> THEN a
    ELSE Zeros(s \div LimbBits) \o MulSmall(a, 2 ^ (s % LimbBits))

Shr(a, s) ==
    IF s \div LimbBits >= Len(a) THEN <<>>
    ELSE DivSmall(SubSeq(a, s \div LimbBits + 1, Len(a)), 2 ^ (s % LimbBits)).q

BitLen(a) ==
    IF a = <<>> THEN 0 ELSE (Len(a) - 1) * LimbBits + SmallBitLen(a[Len(a)])

\* bit k (from 0) of a
Bit(a, k) == (Limb(a, k \div LimbBits + 1) \div (2 ^ (k % LimbBits))) % 2

\* the bits of a below bit k are all zero
LowZero(a, k) == Shl(Shr(a, k), k) = a

RECURSIVE TrailingZeros(_, _)
TrailingZeros(a, k) == IF Bit(a, k) = 1 THEN k ELSE TrailingZeros(a, k + 1)

-----------------------------------------------------------------------------
(* Floats: [neg, m, e] is (-1)^neg * m * 2^e with m odd, or zero.  The     *)
(* values of the model lie in 2^-70 .. 2^10, far from the subnormal and    *)
(* overflow ranges of binary64, which are therefore not modelled.          *)

Precision == 53

FZero == [neg |-> FALSE, m |-> <<>>, e |-> 0]

\* the canonical form of the dyadic rational (-1)^neg * m * 2^e
Dyadic(neg, m, e) ==
    IF m = <<>> THEN FZero
    ELSE LET tz == TrailingZeros(m, 0)
         IN  [neg |-> neg, m |-> Shr(m, tz), e |-> e + tz]

\* round-half-to-even of m * 2^e to Precision significant bits
RoundNearestEven(neg, m, e) ==
    LET len == BitLen(m) IN
    IF len <= Precision THEN Dyadic(neg, m, e)
    ELSE LET s      == len - Precision
             q      == Shr(m, s)
             half   == Bit(m, s - 1) = 1
             sticky == ~LowZero(m, s - 1)
             odd    == Bit(m, s) = 1
             up     == half /\ (sticky \/ odd)
         IN  Dyadic(neg, IF up THEN BigAdd(q, <<1>>) ELSE q, e + s)

Min(a, b) == IF a <= b THEN a ELSE b

\* x + y in the rationals, unrounded
ExactAdd(x, y) ==
    LET e  == Min(x.e, y.e)
        mx == Shl(x.m, x.e - e)
        my == Shl(y.m, y.e - e)
        c  == BigCmp(mx, my)
    IN  IF x.m = <<>> THEN y
        ELSE IF y.m = <<>> THEN x
        ELSE IF x.neg = y.neg THEN Dyadic(x.neg, BigAdd(mx, my), e)
        ELSE IF c = 0 THEN FZero
        ELSE IF c > 0 THEN Dyadic(x.neg, BigSub(mx, my), e)
        ELSE Dyadic(y.neg, BigSub(my, mx), e)

FNeg(x) == IF x.m = <<>> THEN x ELSE [x EXCEPT !.neg = ~x.neg]

FAbs(x) == [x EXCEPT !.neg = FALSE]

\* x * k in the rationals, unrounded, for an integer 0 <= k < Base
ExactScale(x, k) == Dyadic(x.neg, MulSmall(x.m, k), x.e)

\* -1, 0, 1 as x < y, x = y, x > y
FCmp(x, y) ==
    LET d == ExactAdd(x, FNeg(y))
    IN  IF d.m = <<>> THEN 0 ELSE IF d.neg THEN -1 ELSE 1

FLt(x, y) == FCmp(x, y) < 0
FGt(x, y) == FCmp(x, y) > 0

FAdd(x, y) ==
    LET d == ExactAdd(x, y) IN RoundNearestEven(d.neg, d.m, d.e)

FSub(x, y) == FAdd(x, FNeg(y))

FMul(x, y) ==
    IF x.m = <<>> \/ y.m = <<>> THEN FZero
    ELSE RoundNearestEven(x.neg # y.neg, BigMul(x.m, y.m), x.e + y.e)

\* guard bits of a quotient: the quotient keeps at least Precision + 2 bits
DivShift == 5 * LimbBits

\* x / d for an integer 0 < d < Base, correctly rounded
FDivInt(x, d) ==
    IF x.m = <<>> THEN FZero
    ELSE LET qr == DivSmall(Shl(x.m, DivShift), d)
             q2 == BigAdd(MulSmall(qr.q, 2), IF qr.r = 0 THEN <<>> ELSE <<1>>)
         IN  RoundNearestEven(x.neg, q2, x.e - DivShift - 1)

\* the float of an integer -Base < n < Base
FromInt(n) ==
    IF n = 0 THEN FZero
    ELSE Dyadic(n < 0, <<IF n < 0 THEN -n ELSE n>>, 0)

\* the float nearest to n / d: a decimal literal, or int / int in Python
FromRatio(n, d) == FDivInt(FromInt(n), d)

-----------------------------------------------------------------------------
(* State.                                                                  *)

VARIABLES
    risk,        \* the arguments of a direct call of _calculate_risk_level, and its result
    post,        \* a post: its text, its VADER compound score, and its analysis
    model_type,  \* per ConflictPredictor: the constructor's model_type
    model,       \* per ConflictPredictor: self.model
    base,        \* per ConflictPredictor: the estimator self.models[self.model_type]
    scaler,      \* per ConflictPredictor: self.scaler
    feature_importance, \* per ConflictPredictor: self.feature_importance
    file,        \* the artifact at the one filepath, or NoFile
    writer,      \* the thread that trains, saves and loads: its call and position
    reader,      \* the thread that predicts and evaluates: its call and position
    trained_ok,  \* history: the predictors on which a train call has returned
    stable,      \* history: per predictor, its (scaler, estimator) pairs between writes
    file_saver,  \* history: the predictor whose save wrote the file, unchanged since
    df,          \* the batch given to _generate_early_warnings: columns and records
    early_warnings, \* the list _generate_early_warnings returned, once called
    geo,         \* a location given to _map_location_to_region, and its region,
    doc,         \* a text given to clean_text, its cleaned text, and that text cleaned again,
    report,      \* a batch given to generate_monthly_report, and the calls made with it,
    fe,          \* the frames, the frame given to a method of FeatureEngineer, and the result of the call,
    ens,         \* a ConflictEnsembleModel, and the call made on it
    prep,        \* the columns of a batch given to prepare_features, and the result of the call
    ranking      \* the groups of a batch given to generate_monthly_report, and its key findings

scoreVars == <<risk, post>>
predictorVars == <<model_type, model, base, scaler, feature_importance, file,
                   writer, reader, trained_ok, stable, file_saver>>
warnVars == <<df, early_warnings>>
coreVars == <<scoreVars, predictorVars, warnVars>>
geoVars == <<geo>>
cleanVars == <<doc>>
reportVars == <<report>>
featuresVars == <<fe>>
ensembleVars == <<ens>>
prepVars == <<prep>>
rankVars == <<ranking>>
laterVars == <<geoVars, cleanVars, reportVars, featuresVars, ensembleVars, prepVars,
               rankVars>>
vars == <<coreVars, laterVars>>

-----------------------------------------------------------------------------
(* TextPreprocessor._calculate_risk_level (text_cleaner.py 104-115).       *)

SentimentWeight == FromRatio(4, 10)
IntensityWeight == FromRatio(6, 10)
CriticalAbove   == FromRatio(7, 10)
HighAbove       == FromRatio(5, 10)
MediumAbove     == FromRatio(3, 10)

\* the two weights exchanged
risk_score_swapped(sentiment, conflict_intensity) ==
    FAdd(FMul(FAbs(sentiment), IntensityWeight),
         FMul(conflict_intensity, SentimentWeight))

risk_score(sentiment, conflict_intensity) ==
    FAdd(FMul(FAbs(sentiment), SentimentWeight),
         FMul(conflict_intensity, IntensityWeight))

\* the labels of the two upper bands exchanged
LevelOfScoreSwapped(score) ==
    IF FGt(score, CriticalAbove) THEN "High"
    ELSE IF FGt(score, HighAbove) THEN "Critical"
    ELSE IF FGt(score, MediumAbove) THEN "Medium"
    ELSE "Low"

LevelOfScore(score) ==
    IF FGt(score, CriticalAbove) THEN "Critical"
    ELSE IF FGt(score, HighAbove) THEN "High"
    ELSE IF FGt(score, MediumAbove) THEN "Medium"
    ELSE "Low"

calculate_risk_level(sentiment, conflict_intensity) ==
    LevelOfScore(risk_score(sentiment, conflict_intensity))

\* inputs of the direct calls: sentiment in [-1, 1], intensity in [0, 1]
SentimentSteps == 20
IntensitySteps == 10

SentimentGrid == {FromRatio(n, SentimentSteps) : n \in -SentimentSteps..SentimentSteps}
IntensityGrid == {FromRatio(k, IntensitySteps) : k \in 0..IntensitySteps}

RiskArgs ==
    [called : {FALSE}, sentiment : SentimentGrid, conflict_intensity : IntensityGrid]

CalcRisk ==
    /\ ~risk.called
    /\ risk' = [called |-> TRUE, sentiment |-> risk.sentiment,
                conflict_intensity |-> risk.conflict_intensity,
                risk_level |-> calculate_risk_level(risk.sentiment,
                                                    risk.conflict_intensity)]
    /\ UNCHANGED <<post, predictorVars, warnVars, laterVars>>

NextRisk == CalcRisk

-----------------------------------------------------------------------------
(* TextPreprocessor.analyze_sentiment (text_cleaner.py 63-102).  A text is *)
(* a sequence of characters.  The VADER compound score comes from the      *)
(* vaderSentiment library and is an input of the model.                    *)

UpperCase ==
    <<"A", "B", "C", "D", "E", "F", "G", "H", "I", "J", "K", "L", "M", "N", "O", "P", "Q", "R", "S", "T", "U", "V", "W", "X", "Y", "Z">>
LowerCase ==
    <<"a", "b", "c", "d", "e", "f", "g", "h", "i", "j", "k", "l", "m", "n", "o", "p", "q", "r", "s", "t", "u", "v", "w", "x", "y", "z">>

\* str.lower() on one character
LowerChar(ch) ==
    IF \E k \in 1..Len(UpperCase) : UpperCase[k] = ch
    THEN LowerCase[CHOOSE k \in 1..Len(UpperCase) : UpperCase[k] = ch]
    ELSE ch

lower(text) == [k \in 1..Len(text) |-> LowerChar(text[k])]

\* Python's  word in text  on strings: substring search
Contains(word, text) ==
    \E k \in 1..(Len(text) - Len(word) + 1) :
        SubSeq(text, k, k + Len(word) - 1) = word

conflict_words ==
    <<<<"a", "t", "t", "a", "c", "k">>,
      <<"v", "i", "o", "l", "e", "n", "c", "e">>,
      <<"k", "i", "l", "l">>,
      <<"d", "e", "a", "t", "h">>,
      <<"p", "r", "o", "t", "e", "s", "t">>,
      <<"r", "i", "o", "t">>,
      <<"c", "l", "a", "s", "h">>,
      <<"u", "n", "r", "e", "s", "t">>,
      <<"t", "e", "n", "s", "i", "o", "n">>,
      <<"w", "a", "r">>>>

RECURSIVE CountFrom(_, _, _)
CountFrom(words, text, k) ==
    IF k > Len(words) THEN 0
    ELSE (IF Contains(words[k], text) THEN 1 ELSE 0) + CountFrom(words, text, k + 1)

\* the keywords counted in the text as given, not lowercased
conflict_count_cased(text) == CountFrom(conflict_words, text, 1)

\* sum(1 for word in conflict_words if word in text.lower())
conflict_count(text) == CountFrom(conflict_words, lower(text), 1)

\* Python's min(a, b): b when b < a, else a
PyMin(a, b) == IF FLt(b, a) THEN b ELSE a

\* the count divided by the number of keywords
conflict_intensity_of_ten(text) == PyMin(FromRatio(conflict_count(text), 10), FromInt(1))

\* min(conflict_count / 5, 1.0)
conflict_intensity(text) == PyMin(FromRatio(conflict_count(text), 5), FromInt(1))

LabelBound == FromRatio(5, 100)

get_sentiment_label(compound_score) ==
    IF FCmp(compound_score, LabelBound) >= 0 THEN "Positive"
    ELSE IF FCmp(compound_score, FNeg(LabelBound)) <= 0 THEN "Negative"
    ELSE "Neutral"

analyze_sentiment(text, compound) ==
    [text               |-> text,
     vader_compound     |-> compound,
     conflict_intensity |-> conflict_intensity(text),
     sentiment_label    |-> get_sentiment_label(compound),
     risk_level         |-> calculate_risk_level(compound, conflict_intensity(text))]

\* the pieces the input texts are made of
Fragments ==
    {<<"P", "r", "o", "t", "e", "s", "t">>,
     <<"v", "i", "o", "l", "e", "n", "c", "e">>,
     <<"a", "w", "a", "r", "d">>,
     <<"k", "i", "l", "l", " ", "d", "e", "a", "t", "h", " ", "r", "i", "o", "t">>,
     <<"c", "l", "a", "s", "h", " ", "u", "n", "r", "e", "s", "t", " ", "t", "e", "n", "s", "i", "o", "n", " ", "a", "t", "t", "a", "c", "k">>,
     <<"u", "n">>,
     <<"r", "e", "s", "t">>}

MaxFragments == 2
CompoundSteps == 2

CompoundGrid == {FromRatio(n, CompoundSteps) : n \in -CompoundSteps..CompoundSteps}

AppendFragment(f) ==
    /\ ~post.analyzed
    /\ post.type = "str"
    /\ post.fragments < MaxFragments
    /\ post' = [post EXCEPT !.text = @ \o f, !.fragments = @ + 1]
    /\ UNCHANGED <<risk, predictorVars, warnVars, laterVars>>

\* the types of the values given as text that are not strings: None, the
\* float nan of a missing cell, an int
NonTextTypes == {"NoneType", "float", "int"}

\* on a value that is not a str, clean_text returns "" (34-35), then
\* polarity_scores(text) iterates or splits the value (73) and text.lower()
\* (78) is an attribute the value does not have: the call raises
NonTextErrors == {"TypeError", "AttributeError"}

\* analyze_sentiment on a post: what it returns, or the error it raises
Analyzed(p) ==
    IF p.type = "str" THEN {analyze_sentiment(p.text, p.vader)}
    ELSE {[raised |-> e] : e \in NonTextErrors}

AnalyzeSentiment ==
    /\ ~post.analyzed
    /\ \E r \in Analyzed(post) :
           post' = [post EXCEPT !.analyzed = TRUE, !.result = r]
    /\ UNCHANGED <<risk, predictorVars, warnVars, laterVars>>

NextScore ==
    \/ \E f \in Fragments : AppendFragment(f)
    \/ AnalyzeSentiment

NoResult == [text |-> <<>>]

Posts ==
    [text : {<<>>}, type : {"str"}, fragments : {0}, vader : CompoundGrid,
     analyzed : {FALSE}, result : {NoResult}]
    \cup [text : {<<>>}, type : NonTextTypes, fragments : {0}, vader : {FZero},
          analyzed : {FALSE}, result : {NoResult}]

-----------------------------------------------------------------------------
(* ConflictPredictor (conflict_predictor.py).  An estimator or a scaler is *)
(* known by whether it is fitted and by the training set it was fitted on. *)
(* The code takes no lock, so the steps of a train, save or load on one    *)
(* thread interleave with the steps of a predict or evaluate on another.   *)

Predictors == {"p", "q"}

ModelTypes == {"random_forest", "gradient_boosting", "svm"}
Supported  == {"random_forest", "gradient_boosting"}

MaxWrites == 3

\* the training sets: on two of them fit succeeds ("ok"); on one the
\* estimator's fit raises ("unfittable": too few rows for the 5 folds, a single
\* class); on one the scaler's fit raises ("empty": no rows)
TrainingSets ==
    {[data |-> 1, kind |-> "ok"], [data |-> 2, kind |-> "ok"],
     [data |-> 3, kind |-> "unfittable"], [data |-> 4, kind |-> "empty"]}

Unfitted == [fitted |-> FALSE, data |-> 0]
Fitted(d) == [fitted |-> TRUE, data |-> d]

NoModel == [ref |-> "none"]
BaseModel == [ref |-> "base"]
OwnModel(est) == [ref |-> "own", est |-> est]

NoFile == [exists |-> FALSE]
NoImportance == [ranked |-> FALSE, data |-> 0]
Importance(d) == [ranked |-> TRUE, data |-> d]

IdleWriter == [pc |-> "idle", writes |-> 0]
IdleReader == [pc |-> "idle"]

\* the estimator object self.model refers to; self.model is not None
Estimator(i) == IF model[i].ref = "base" THEN base[i] ELSE model[i].est

\* the (scaler, estimator) pair of a predictor
Pair(i) == [scaler |-> scaler[i],
            est    |-> IF model[i].ref = "none" THEN NoModel ELSE OwnModel(Estimator(i))]

\* __init__ (15-46)
InitPredictor ==
    /\ model_type \in {[i \in Predictors |-> t] : t \in ModelTypes}
    /\ model = [i \in Predictors |-> NoModel]
    /\ base = [i \in Predictors |-> Unfitted]
    /\ scaler = [i \in Predictors |-> Unfitted]
    /\ feature_importance = [i \in Predictors |-> NoImportance]
    /\ file = NoFile
    /\ writer = IdleWriter
    /\ reader = IdleReader
    /\ trained_ok = {}
    /\ stable = [i \in Predictors |-> {[scaler |-> Unfitted, est |-> NoModel]}]
    /\ file_saver = "none"

\* the writer's call returns or raises: the predictor is between writes again
WriterReturns(i, ok) ==
    /\ writer' = [pc |-> "idle", writes |-> writer.writes]
    /\ trained_ok' = IF ok THEN trained_ok \cup {i} ELSE trained_ok

\* the pair the predictor i is left with by this step
PairAfter(i) == [scaler |-> scaler'[i],
                 est    |-> IF model'[i].ref = "none" THEN NoModel
                            ELSE OwnModel(IF model'[i].ref = "base" THEN base'[i]
                                          ELSE model'[i].est)]

Settle(i) == stable' = [stable EXCEPT ![i] = @ \cup {PairAfter(i)}]

\* a step of train changes the predictor whose save wrote the file
Touch(i) == file_saver' = IF file_saver = i THEN "none" ELSE file_saver

-----------------------------------------------------------------------------
(* train (73-100)                                                          *)

\* the attributes of a predictor: self.model with the estimator
\* self.models[self.model_type], self.scaler and self.feature_importance
Attributes(i) ==
    [model |-> model[i], base |-> base[i], scaler |-> scaler[i],
     feature_importance |-> feature_importance[i]]

\* the call keeps, as history, the attributes it found
TrainCall(i, ts) ==
    /\ writer.pc = "idle"
    /\ writer.writes < MaxWrites
    /\ writer' = [pc |-> "train_scale", writes |-> writer.writes + 1,
                  inst |-> i, ts |-> ts, before |-> Attributes(i)]
    /\ UNCHANGED <<scoreVars, warnVars, laterVars, model_type, model, base, scaler, feature_importance, file,
                   reader, trained_ok, stable, file_saver>>

\* 76: StandardScaler.fit resets the scaler, then validates X_train
TrainScalerReset ==
    /\ writer.pc = "train_scale"
    /\ scaler' = [scaler EXCEPT ![writer.inst] = Unfitted]
    /\ Touch(writer.inst)
    /\ UNCHANGED <<scoreVars, warnVars, laterVars, model_type, model, base, feature_importance, file, reader>>
    /\ IF writer.ts.kind = "empty"
       THEN WriterReturns(writer.inst, FALSE) /\ Settle(writer.inst)
       ELSE /\ writer' = [writer EXCEPT !.pc = "train_scaled"]
            /\ UNCHANGED <<trained_ok, stable>>

\* 76: the scaler is fitted on X_train
TrainScalerFit ==
    /\ writer.pc = "train_scaled"
    /\ scaler' = [scaler EXCEPT ![writer.inst] = Fitted(writer.ts.data)]
    /\ writer' = [writer EXCEPT !.pc = "train_get"]
    /\ UNCHANGED <<scoreVars, warnVars, laterVars, model_type, model, base, feature_importance, file, reader,
                   trained_ok, stable, file_saver>>

\* 79: self.model = self.models[self.model_type], a KeyError on another type
TrainGetModel ==
    /\ writer.pc = "train_get"
    /\ UNCHANGED <<scoreVars, warnVars, laterVars, model_type, base, scaler, feature_importance, file, reader>>
    /\ IF model_type[writer.inst] \in Supported
       THEN /\ model' = [model EXCEPT ![writer.inst] = BaseModel]
            /\ writer' = [writer EXCEPT !.pc = "train_fit"]
            /\ Touch(writer.inst)
            /\ UNCHANGED <<trained_ok, stable>>
       ELSE /\ UNCHANGED <<model, file_saver>>
            /\ WriterReturns(writer.inst, FALSE) /\ Settle(writer.inst)

\* 82-93: the grid search fits clones of the random forest and leaves
\* self.model as it is; any other estimator is fitted in place, and when its
\* fit raises it is left as it was or cleared, as the library has it
TrainFit ==
    /\ writer.pc = "train_fit"
    /\ UNCHANGED <<scoreVars, warnVars, laterVars, model_type, model, scaler, feature_importance, file, reader>>
    /\ IF writer.ts.kind = "unfittable"
       THEN /\ \/ UNCHANGED base
               \/ /\ model_type[writer.inst] # "random_forest"
                  /\ base[writer.inst].fitted
                  /\ base' = [base EXCEPT ![writer.inst] = Unfitted]
            /\ UNCHANGED file_saver
            /\ WriterReturns(writer.inst, FALSE) /\ Settle(writer.inst)
       ELSE /\ IF model_type[writer.inst] = "random_forest"
               THEN /\ writer' = [writer EXCEPT !.pc = "train_best"]
                    /\ UNCHANGED <<base, file_saver>>
               ELSE /\ base' = [base EXCEPT ![writer.inst] = Fitted(writer.ts.data)]
                    /\ writer' = [writer EXCEPT !.pc = "train_importance"]
                    /\ Touch(writer.inst)
            /\ UNCHANGED <<trained_ok, stable>>

\* 90: self.model = grid_search.best_estimator_
TrainBestEstimator ==
    /\ writer.pc = "train_best"
    /\ model' = [model EXCEPT ![writer.inst] = OwnModel(Fitted(writer.ts.data))]
    /\ writer' = [writer EXCEPT !.pc = "train_importance"]
    /\ Touch(writer.inst)
    /\ UNCHANGED <<scoreVars, warnVars, laterVars, model_type, base, scaler, feature_importance, file, reader,
                   trained_ok, stable>>

\* 96-100: both estimators have feature_importances_; train returns
TrainImportance ==
    /\ writer.pc = "train_importance"
    /\ feature_importance' =
           [feature_importance EXCEPT ![writer.inst] = Importance(writer.ts.data)]
    /\ UNCHANGED <<scoreVars, warnVars, laterVars, model_type, model, base, scaler, file, reader>>
    /\ WriterReturns(writer.inst, TRUE) /\ Settle(writer.inst)
    /\ Touch(writer.inst)

-----------------------------------------------------------------------------
(* save_model (134-141) and load_model (143-149)                           *)

\* what joblib pickles: the objects by value
Pickled(i) ==
    [exists |-> TRUE,
     model  |-> IF model[i].ref = "none" THEN NoModel ELSE OwnModel(Estimator(i)),
     scaler |-> scaler[i],
     feature_importance |-> feature_importance[i]]

SaveModel(i) ==
    /\ writer.pc = "idle"
    /\ writer.writes < MaxWrites
    /\ writer' = [pc |-> "idle", writes |-> writer.writes + 1]
    /\ file' = Pickled(i)
    /\ file_saver' = i
    /\ UNCHANGED <<scoreVars, warnVars, laterVars, model_type, model, base, scaler, feature_importance, reader,
                   trained_ok, stable>>

LoadCall(i) ==
    /\ writer.pc = "idle"
    /\ writer.writes < MaxWrites
    /\ writer' = [pc |-> "load_read", writes |-> writer.writes + 1, inst |-> i]
    /\ UNCHANGED <<scoreVars, warnVars, laterVars, model_type, model, base, scaler, feature_importance, file,
                   reader, trained_ok, stable, file_saver>>

\* 145: saved_data = joblib.load(filepath), a FileNotFoundError without a file
LoadRead ==
    /\ writer.pc = "load_read"
    /\ IF file.exists
       THEN writer' = [pc |-> "load_model", writes |-> writer.writes,
                       inst |-> writer.inst, saved_data |-> file]
       ELSE writer' = [pc |-> "idle", writes |-> writer.writes]
    /\ UNCHANGED <<scoreVars, warnVars, laterVars, model_type, model, base, scaler, feature_importance, file,
                   reader, trained_ok, stable, file_saver>>

\* 146: self.model = saved_data['model']
LoadSetModel ==
    /\ writer.pc = "load_model"
    /\ model' = [model EXCEPT ![writer.inst] = writer.saved_data.model]
    /\ writer' = [writer EXCEPT !.pc = "load_scaler"]
    /\ UNCHANGED <<scoreVars, warnVars, laterVars, model_type, base, scaler, feature_importance, file, reader,
                   trained_ok, stable, file_saver>>

\* the scaler of the artifact is not restored
LoadSkipScaler ==
    /\ writer.pc = "load_scaler"
    /\ writer' = [writer EXCEPT !.pc = "load_importance"]
    /\ UNCHANGED <<scoreVars, warnVars, laterVars, model_type, model, base, scaler, feature_importance,
                   file, reader, trained_ok, stable, file_saver>>

\* 147: self.scaler = saved_data['scaler']
LoadSetScaler ==
    /\ writer.pc = "load_scaler"
    /\ scaler' = [scaler EXCEPT ![writer.inst] = writer.saved_data.scaler]
    /\ writer' = [writer EXCEPT !.pc = "load_importance"]
    /\ UNCHANGED <<scoreVars, warnVars, laterVars, model_type, model, base, feature_importance, file, reader,
                   trained_ok, stable, file_saver>>

\* 148: self.feature_importance = saved_data['feature_importance']
LoadSetImportance ==
    /\ writer.pc = "load_importance"
    /\ feature_importance' =
           [feature_importance EXCEPT ![writer.inst] = writer.saved_data.feature_importance]
    /\ writer' = [pc |-> "loaded", writes |-> writer.writes, inst |-> writer.inst]
    /\ UNCHANGED <<scoreVars, warnVars, laterVars, model_type, model, base, scaler, file, reader, trained_ok,
                   file_saver>>
    /\ Settle(writer.inst)

\* 149: load_model returns
LoadReturn ==
    /\ writer.pc = "loaded"
    /\ writer' = [pc |-> "idle", writes |-> writer.writes]
    /\ UNCHANGED <<scoreVars, warnVars, laterVars, model_type, model, base, scaler, feature_importance, file,
                   reader, trained_ok, stable, file_saver>>

-----------------------------------------------------------------------------
(* predict (102-111) and evaluate (113-132), which calls predict and then  *)
(* computes its metrics from the labels.                                   *)

Raised(error) == [pc |-> "done", op |-> reader.op, inst |-> reader.inst,
                  outcome |-> error]

PredictCall(i, op) ==
    /\ reader.pc = "idle"
    /\ reader' = [pc |-> "check", op |-> op, inst |-> i]
    /\ UNCHANGED <<scoreVars, warnVars, laterVars, model_type, model, base, scaler, feature_importance, file,
                   writer, trained_ok, stable, file_saver>>

\* 104-105: if self.model is None: raise ValueError("Model not trained...")
PredictCheck ==
    /\ reader.pc = "check"
    /\ reader' = IF model[reader.inst].ref = "none"
                 THEN Raised("ModelNotTrained")
                 ELSE [reader EXCEPT !.pc = "scale"]
    /\ UNCHANGED <<scoreVars, warnVars, laterVars, model_type, model, base, scaler, feature_importance, file,
                   writer, trained_ok, stable, file_saver>>

\* fit_transform in the place of transform: the scaler is fitted again, on X
PredictScaleRefit ==
    /\ reader.pc = "scale"
    /\ scaler' = [scaler EXCEPT ![reader.inst] = Fitted(0)]
    /\ reader' = [pc |-> "labels", op |-> reader.op, inst |-> reader.inst,
                  scaler |-> Fitted(0)]
    /\ UNCHANGED <<scoreVars, warnVars, laterVars, model_type, model, base, feature_importance, file,
                   writer, trained_ok, stable, file_saver>>

\* 107: X_scaled = self.scaler.transform(X), a NotFittedError on a scaler not fitted
PredictScale ==
    /\ reader.pc = "scale"
    /\ reader' = IF scaler[reader.inst].fitted
                 THEN [pc |-> "labels", op |-> reader.op, inst |-> reader.inst,
                       scaler |-> scaler[reader.inst]]
                 ELSE Raised("NotFittedError")
    /\ UNCHANGED <<scoreVars, warnVars, laterVars, model_type, model, base, scaler, feature_importance, file,
                   writer, trained_ok, stable, file_saver>>

\* what self.model.predict and self.model.predict_proba do on the model as it is
\* now: an AttributeError on None, a NotFittedError on an estimator not fitted
UseModel(i) ==
    IF model[i].ref = "none" THEN "AttributeError"
    ELSE IF ~Estimator(i).fitted THEN "NotFittedError"
    ELSE "ok"

\* 108: predictions = self.model.predict(X_scaled)
PredictLabels ==
    /\ reader.pc = "labels"
    /\ reader' = IF UseModel(reader.inst) = "ok"
                 THEN [pc |-> "proba", op |-> reader.op, inst |-> reader.inst,
                       scaler |-> reader.scaler, labels |-> Estimator(reader.inst)]
                 ELSE Raised(UseModel(reader.inst))
    /\ UNCHANGED <<scoreVars, warnVars, laterVars, model_type, model, base, scaler, feature_importance, file,
                   writer, trained_ok, stable, file_saver>>

\* 109-111: probabilities = self.model.predict_proba(X_scaled); return both
PredictProba ==
    /\ reader.pc = "proba"
    /\ reader' = IF UseModel(reader.inst) = "ok"
                 THEN [pc |-> "done", op |-> reader.op, inst |-> reader.inst,
                       outcome |-> "ok", scaler |-> reader.scaler,
                       labels |-> reader.labels,
                       probabilities |-> Estimator(reader.inst)]
                 ELSE Raised(UseModel(reader.inst))
    /\ UNCHANGED <<scoreVars, warnVars, laterVars, model_type, model, base, scaler, feature_importance, file,
                   writer, trained_ok, stable, file_saver>>

\* the caller has the result, or the error
PredictReturn ==
    /\ reader.pc = "done"
    /\ reader' = IdleReader
    /\ UNCHANGED <<scoreVars, warnVars, laterVars, model_type, model, base, scaler, feature_importance, file,
                   writer, trained_ok, stable, file_saver>>

\* the two threads run their calls at once
Next ==
    \/ \E i \in Predictors, ts \in TrainingSets : TrainCall(i, ts)
    \/ TrainScalerReset
    \/ TrainScalerFit
    \/ TrainGetModel
    \/ TrainFit
    \/ TrainBestEstimator
    \/ TrainImportance
    \/ \E i \in Predictors : SaveModel(i)
    \/ \E i \in Predictors : LoadCall(i)
    \/ LoadRead
    \/ LoadSetModel
    \/ LoadSetScaler
    \/ LoadSetImportance
    \/ LoadReturn
    \/ \E i \in Predictors, op \in {"predict", "evaluate"} : PredictCall(i, op)
    \/ PredictCheck
    \/ PredictScale
    \/ PredictLabels
    \/ PredictProba
    \/ PredictReturn

\* one call at a time: a call starts when no other call is running
NextSequential ==
    \/ \E i \in Predictors, ts \in TrainingSets :
          reader.pc = "idle" /\ TrainCall(i, ts)
    \/ TrainScalerReset
    \/ TrainScalerFit
    \/ TrainGetModel
    \/ TrainFit
    \/ TrainBestEstimator
    \/ TrainImportance
    \/ \E i \in Predictors : reader.pc = "idle" /\ SaveModel(i)
    \/ \E i \in Predictors : reader.pc = "idle" /\ LoadCall(i)
    \/ LoadRead
    \/ LoadSetModel
    \/ LoadSetScaler
    \/ LoadSetImportance
    \/ LoadReturn
    \/ \E i \in Predictors, op \in {"predict", "evaluate"} :
          writer.pc = "idle" /\ PredictCall(i, op)
    \/ PredictCheck
    \/ PredictScale
    \/ PredictLabels
    \/ PredictProba
    \/ PredictReturn

-----------------------------------------------------------------------------
(* DashboardGenerator._generate_early_warnings                             *)
(* (src/visualizations/dashboard_generator.py).  The batch df is built     *)
(* from runs of equal records; then the detector is applied once.          *)

Columns == {"date", "vader_compound", "conflict_intensity"}

\* the column sets of the batches: all columns, or one of them missing
ColumnSets == {Columns} \cup {Columns \ {c} : c \in Columns}

\* (vader_compound, conflict_intensity) of the records the batches are made of
RecordKinds ==
    {[vader_compound |-> FromRatio(-65, 100), conflict_intensity |-> FromRatio(9, 10)],
     [vader_compound |-> FromRatio(-95, 100), conflict_intensity |-> FromRatio(7, 10)],
     [vader_compound |-> FromRatio(-1, 10),   conflict_intensity |-> FromRatio(9, 10)],
     [vader_compound |-> FromRatio(-5, 10),   conflict_intensity |-> FromRatio(2, 10)]}

\* the lengths of the runs; a run of ShortRuns is the first of its batch
RunLengths == {3, 4, 7, 10}
ShortRuns == {3}
MaxRecords == 15

\* a record of kind k dated d, with the columns cols
Record(k, d, cols) ==
    [c \in cols |-> IF c = "date" THEN d ELSE k[c]]

\* n records of kind k, dated first, first + 1, ...
Run(k, first, n, cols) == [j \in 1..n |-> Record(k, first + j - 1, cols)]

\* the caller puts n records, later than all records of the batch, at the
\* end of the batch or at its front
AddRecords(k, n, at_front) ==
    /\ ~early_warnings.called
    /\ Len(df.rows) + n <= MaxRecords
    /\ n \in ShortRuns => df.rows = <<>>
    /\ LET run == Run(k, Len(df.rows) + 1, n, df.columns)
       IN  df' = [df EXCEPT !.rows = IF at_front THEN run \o @ ELSE @ \o run]
    /\ UNCHANGED <<scoreVars, predictorVars, laterVars, early_warnings>>

RECURSIVE InsertByDate(_, _)
InsertByDate(sorted, r) ==
    IF sorted = <<>> THEN <<r>>
    ELSE IF sorted[Len(sorted)].date <= r.date THEN Append(sorted, r)
    ELSE Append(InsertByDate(SubSeq(sorted, 1, Len(sorted) - 1), r),
                sorted[Len(sorted)])

RECURSIVE SortFrom(_, _, _)
SortFrom(rows, i, sorted) ==
    IF i > Len(rows) THEN sorted
    ELSE SortFrom(rows, i + 1, InsertByDate(sorted, rows[i]))

\* df.sort_values('date')
sort_values(rows) == SortFrom(rows, 1, <<>>)

Max(a, b) == IF a >= b THEN a ELSE b

tail(s, n) == SubSeq(s, Max(1, Len(s) - n + 1), Len(s))
head(s, n) == SubSeq(s, 1, Min(n, Len(s)))

Column(rows, c) == [j \in 1..Len(rows) |-> rows[j][c]]

\* the result of a reduction: a float, or nan
NaN == [nan |-> TRUE, value |-> FZero]
Num(x) == [nan |-> FALSE, value |-> x]

RECURSIVE SumFrom(_, _, _)
SumFrom(s, i, acc) ==
    IF i > Len(s) THEN acc ELSE SumFrom(s, i + 1, FAdd(acc, s[i]))

\* the sum of a float column of fewer than 8 values: with bottleneck the
\* values are added from the first to the last; numpy adds the sum of the
\* others to the first
Summations == {"bottleneck", "numpy"}

Sum(s, summation) ==
    IF summation = "bottleneck" THEN SumFrom(s, 1, FZero)
    ELSE FAdd(s[1], SumFrom(s, 2, FZero))

\* Series.mean(): sum / count, nan for no values
mean(s, summation) ==
    IF s = <<>> THEN NaN ELSE Num(FDivInt(Sum(s, summation), Len(s)))

\* x < y, with a comparison with nan taken as true
NLt_or_nan(x, y) == x.nan \/ y.nan \/ FLt(x.value, y.value)

\* x - c and x < y, with nan
NSub(x, c) == IF x.nan THEN NaN ELSE Num(FSub(x.value, c))
NLt(x, y) == ~x.nan /\ ~y.nan /\ FLt(x.value, y.value)

\* f"{x:.2f}": the sign and the hundredths, the nearest to x (ties to even)
Format2f(x) ==
    LET n      == MulSmall(x.m, 100)
        s      == -x.e
        q      == IF s <= 0 THEN Shl(n, -s) ELSE Shr(n, s)
        half   == s > 0 /\ Bit(n, s - 1) = 1
        sticky == s > 0 /\ ~LowZero(n, s - 1)
        odd    == Bit(q, 0) = 1
        up     == half /\ (sticky \/ odd)
    IN  [neg |-> x.neg, hundredths |-> Limb(q, 1) + IF up THEN 1 ELSE 0]

SignificantDrop == FromRatio(3, 10)
HighIntensity == FromRatio(7, 10)
ClusterThreshold == 10

\* the number of records with conflict_intensity > 0.7, counted with >= 0.7
high_intensity_count_inclusive(rows) ==
    Cardinality({j \in 1..Len(rows) :
                    FCmp(rows[j].conflict_intensity, HighIntensity) >= 0})

\* len(df[df['conflict_intensity'] > 0.7])
high_intensity_count(rows) ==
    Cardinality({j \in 1..Len(rows) :
                    FGt(rows[j].conflict_intensity, HighIntensity)})

\* the check for sudden sentiment drops: the warnings it appends
sentiment_drop(batch, summation) ==
    IF {"vader_compound", "date"} \subseteq batch.columns
    THEN LET df_sorted == sort_values(batch.rows)
             compound  == Column(df_sorted, "vader_compound")
             recent_sentiment   == mean(tail(compound, 7), summation)
             previous_sentiment == mean(head(tail(compound, 14), 7), summation)
         IN  IF NLt(recent_sentiment, NSub(previous_sentiment, SignificantDrop))
             THEN <<[type     |-> "sentiment_drop",
                     severity |-> "high",
                     message  |-> [recent   |-> Format2f(recent_sentiment.value),
                                   previous |-> Format2f(previous_sentiment.value)],
                     suggested_action |->
                         "Monitor social media for potential unrest triggers"]>>
             ELSE <<>>
    ELSE <<>>

\* the check for increasing conflict intensity: the warnings it appends
high_intensity_cluster(batch) ==
    IF "conflict_intensity" \in batch.columns
    THEN LET count == high_intensity_count(batch.rows)
         IN  IF count > ClusterThreshold
             THEN <<[type     |-> "high_intensity_cluster",
                     severity |-> "critical",
                     message  |-> [count |-> count],
                     suggested_action |->
                         "Deploy rapid response teams to affected regions"]>>
             ELSE <<>>
    ELSE <<>>

generate_early_warnings(batch, summation) ==
    sentiment_drop(batch, summation) \o high_intensity_cluster(batch)

GenerateEarlyWarnings ==
    /\ ~early_warnings.called
    /\ \E summation \in Summations :
           early_warnings' = [called   |-> TRUE,
                              warnings |-> generate_early_warnings(df, summation)]
    /\ UNCHANGED <<scoreVars, predictorVars, laterVars, df>>

NextWarn ==
    \/ \E k \in RecordKinds, n \in RunLengths, at_front \in BOOLEAN :
           AddRecords(k, n, at_front)
    \/ GenerateEarlyWarnings

NotCalled == [called |-> FALSE, warnings |-> <<>>]

Batches == [columns : ColumnSets, rows : {<<>>}]

IdleBatch == [columns |-> Columns, rows |-> <<>>]

-----------------------------------------------------------------------------
(* FeatureEngineer._map_location_to_region                                 *)
(* (src/preprocessing/feature_engineering.py).  A location is a Python     *)
(* value: a str with its characters, or a value of another type.           *)

Str(chars) == [type |-> "str", chars |-> chars]

\* the values that are not strings: None, the float nan of a missing cell, an int
NonStrings == {[type |-> "NoneType"], [type |-> "float"], [type |-> "int"]}

\* region_keywords, in the order of the dict literal
region_keywords ==
    <<[region |-> "Nairobi", keywords |-> <<<<"n", "a", "i", "r", "o", "b", "i">>, <<"n", "r", "b">>>>],
      [region |-> "Mombasa", keywords |-> <<<<"m", "o", "m", "b", "a", "s", "a">>, <<"m", "o", "m">>, <<"c", "o", "a", "s", "t">>>>],
      [region |-> "Kisumu",  keywords |-> <<<<"k", "i", "s", "u", "m", "u">>, <<"l", "a", "k", "e">>, <<"n", "y", "a", "n", "z", "a">>>>],
      [region |-> "Nakuru",  keywords |-> <<<<"n", "a", "k", "u", "r", "u">>, <<"r", "i", "f", "t">>>>],
      [region |-> "Eldoret", keywords |-> <<<<"e", "l", "d", "o", "r", "e", "t">>, <<"u", "a", "s", "i", "n">>>>],
      [region |-> "Meru",    keywords |-> <<<<"m", "e", "r", "u">>, <<"e", "a", "s", "t", "e", "r", "n">>>>]>>

\* any(keyword in location_lower for keyword in keywords)
AnyKeyword(keywords, location_lower) ==
    \E k \in 1..Len(keywords) : Contains(keywords[k], location_lower)

\* the loop over a table that starts at entry k, of the last entry first
RECURSIVE LastRegionFrom(_, _, _)
LastRegionFrom(table, location_lower, k) ==
    IF k < 1 THEN "Other"
    ELSE IF AnyKeyword(table[k].keywords, location_lower) THEN table[k].region
    ELSE LastRegionFrom(table, location_lower, k - 1)

\* for region, keywords in region_keywords.items(): ... return region
RECURSIVE FirstRegionFrom(_, _, _)
FirstRegionFrom(table, location_lower, k) ==
    IF k > Len(table) THEN "Other"
    ELSE IF AnyKeyword(table[k].keywords, location_lower) THEN table[k].region
    ELSE FirstRegionFrom(table, location_lower, k + 1)

\* the table searched from its last entry
MatchRegionLast(location_lower) ==
    LastRegionFrom(region_keywords, location_lower, Len(region_keywords))

MatchRegion(location_lower) == FirstRegionFrom(region_keywords, location_lower, 1)

map_location_to_region(location) ==
    IF location.type # "str" THEN "Unknown"
    ELSE MatchRegion(lower(location.chars))

\* the pieces the location strings are made of
LocationParts ==
    {<<"N", "a", "i", "r", "o", "b", "i">>, <<" ", "C", "B", "D">>, <<"x", "y", "z", "1", "2", "3">>, <<"m", "o", "m", "b", "a", "s", "a">>, <<"L", "a", "k", "e", " ", "V", "i", "e", "w">>,
     <<"R", "i", "f", "t">>, <<"u", "a", "s", "i", "n">>, <<"M", "e", "r", "u">>, <<"c", "o">>, <<"a", "s", "t">>}

MaxLocationParts == 2

AppendLocationPart(part) ==
    /\ ~geo.called
    /\ geo.location.type = "str"
    /\ geo.parts < MaxLocationParts
    /\ geo' = [geo EXCEPT !.location = Str(@.chars \o part), !.parts = @ + 1]
    /\ UNCHANGED <<coreVars, cleanVars, reportVars, featuresVars, ensembleVars, prepVars, rankVars>>

MapLocationToRegion ==
    /\ ~geo.called
    /\ geo' = [geo EXCEPT !.called = TRUE,
                          !.region = map_location_to_region(geo.location)]
    /\ UNCHANGED <<coreVars, cleanVars, reportVars, featuresVars, ensembleVars, prepVars, rankVars>>

NextGeo ==
    \/ \E part \in LocationParts : AppendLocationPart(part)
    \/ MapLocationToRegion

Locations ==
    [location : {Str(<<>>)} \cup NonStrings, parts : {0}, called : {FALSE},
     region : {"none"}]

IdleGeo == [location |-> Str(<<>>), parts |-> 0, called |-> FALSE, region |-> "none"]

-----------------------------------------------------------------------------
(* TextPreprocessor.clean_text (src/preprocessing/text_cleaner.py 17-61).   *)
(* The regular expressions work on the characters of the text; the         *)
(* tokenizer, the stopword list and the lemmatizer are those of nltk.      *)

Digits == {"0", "1", "2", "3", "4", "5", "6", "7", "8", "9"}
Letters == {LowerCase[k] : k \in 1..Len(LowerCase)} \cup {UpperCase[k] : k \in 1..Len(UpperCase)}

\* \w, \s and \S of Python's re on the characters of the model
IsWord(ch) == ch \in Letters \cup Digits \cup {"_"}
IsSpace(ch) == ch = " "

StartsWithAt(text, word, i) ==
    /\ i + Len(word) - 1 <= Len(text)
    /\ SubSeq(text, i, i + Len(word) - 1) = word

\* the end of the longest run of characters of a class that starts at i
\* (i - 1 when there is none)
InClass(class, ch) ==
    CASE class = "\\w" -> IsWord(ch)
      [] class = "\\S" -> ~IsSpace(ch)

RECURSIVE RunEnd(_, _, _)
RunEnd(text, i, class) ==
    IF i <= Len(text) /\ InClass(class, text[i]) THEN RunEnd(text, i + 1, class)
    ELSE i - 1

\* re.sub(prefix + class + '+', '', text) from position i on, for the
\* prefixes in the order of the alternation
RECURSIVE SubPrefixed(_, _, _, _)
SubPrefixed(text, prefixes, class, i) ==
    IF i > Len(text) THEN <<>>
    ELSE LET hits == {k \in 1..Len(prefixes) :
                         /\ StartsWithAt(text, prefixes[k], i)
                         /\ RunEnd(text, i + Len(prefixes[k]), class)
                                >= i + Len(prefixes[k])}
         IN  IF hits = {}
             THEN <<text[i]>> \o SubPrefixed(text, prefixes, class, i + 1)
             ELSE LET k == CHOOSE h \in hits : \A g \in hits : h <= g
                  IN  SubPrefixed(text, prefixes, class,
                                  RunEnd(text, i + Len(prefixes[k]), class) + 1)

\* re.sub(r'http\S+|www\S+|https\S+', '', text)
remove_urls(text) ==
    SubPrefixed(text, <<<<"h", "t", "t", "p">>, <<"w", "w", "w">>, <<"h", "t", "t", "p", "s">>>>, "\\S", 1)

\* re.sub(r'@\w+', '', text)
remove_mentions(text) == SubPrefixed(text, <<<<"@">>>>, "\\w", 1)

\* re.sub(r'#', '', text)
remove_hash(text) == SelectSeq(text, LAMBDA ch : ch # "#")

\* re.sub(r'[^\w\s]', ' ', text)
blank_special(text) ==
    [k \in 1..Len(text) |-> IF IsWord(text[k]) \/ IsSpace(text[k]) THEN text[k] ELSE " "]

\* re.sub(r'\d+', '', text)
remove_digits(text) == SelectSeq(text, LAMBDA ch : ch \notin Digits)

\* str.split(): the maximal runs of characters that are not spaces
RECURSIVE SplitFrom(_, _)
SplitFrom(text, i) ==
    IF i > Len(text) THEN <<>>
    ELSE IF IsSpace(text[i]) THEN SplitFrom(text, i + 1)
    ELSE LET j == RunEnd(text, i, "\\S")
         IN  <<SubSeq(text, i, j)>> \o SplitFrom(text, j + 1)

\* the contractions nltk's Treebank tokenizer splits, without those that
\* need an apostrophe: no apostrophe is left in the text
CONTRACTIONS2 ==
    {<<<<"c", "a", "n">>, <<"n", "o", "t">>>>, <<<<"g", "i", "m">>, <<"m", "e">>>>, <<<<"g", "o", "n">>, <<"n", "a">>>>,
     <<<<"g", "o", "t">>, <<"t", "a">>>>, <<<<"l", "e", "m">>, <<"m", "e">>>>, <<<<"w", "a", "n">>, <<"n", "a">>>>}

RECURSIVE Flatten(_)
Flatten(seqs) == IF seqs = <<>> THEN <<>> ELSE Head(seqs) \o Flatten(Tail(seqs))

\* word_tokenize on a text of word characters and spaces
word_tokenize(text) ==
    LET words == SplitFrom(text, 1)
        Split(w) == IF \E c \in CONTRACTIONS2 : c[1] \o c[2] = w
                    THEN CHOOSE c \in CONTRACTIONS2 : c[1] \o c[2] = w
                    ELSE <<w>>
    IN  Flatten([k \in 1..Len(words) |-> Split(words[k])])

\* nltk's stopwords.words('english'), without the entries that have an
\* apostrophe: no apostrophe is left in a token
english_stopwords ==
    {<<"i">>, <<"m", "e">>, <<"m", "y">>, <<"m", "y", "s", "e", "l", "f">>, <<"w", "e">>, <<"o", "u", "r">>, <<"o", "u", "r", "s">>,
     <<"o", "u", "r", "s", "e", "l", "v", "e", "s">>, <<"y", "o", "u">>, <<"y", "o", "u", "r">>, <<"y", "o", "u", "r", "s">>, <<"y", "o", "u", "r", "s", "e", "l", "f">>,
     <<"y", "o", "u", "r", "s", "e", "l", "v", "e", "s">>, <<"h", "e">>, <<"h", "i", "m">>, <<"h", "i", "s">>, <<"h", "i", "m", "s", "e", "l", "f">>, <<"s", "h", "e">>,
     <<"h", "e", "r">>, <<"h", "e", "r", "s">>, <<"h", "e", "r", "s", "e", "l", "f">>, <<"i", "t">>, <<"i", "t", "s">>, <<"i", "t", "s", "e", "l", "f">>, <<"t", "h", "e", "y">>,
     <<"t", "h", "e", "m">>, <<"t", "h", "e", "i", "r">>, <<"t", "h", "e", "i", "r", "s">>, <<"t", "h", "e", "m", "s", "e", "l", "v", "e", "s">>, <<"w", "h", "a", "t">>, <<"w", "h", "i", "c", "h">>,
     <<"w", "h", "o">>, <<"w", "h", "o", "m">>, <<"t", "h", "i", "s">>, <<"t", "h", "a", "t">>, <<"t", "h", "e", "s", "e">>, <<"t", "h", "o", "s", "e">>, <<"a", "m">>,
     <<"i", "s">>, <<"a", "r", "e">>, <<"w", "a", "s">>, <<"w", "e", "r", "e">>, <<"b", "e">>, <<"b", "e", "e", "n">>, <<"b", "e", "i", "n", "g">>,
     <<"h", "a", "v", "e">>, <<"h", "a", "s">>, <<"h", "a", "d">>, <<"h", "a", "v", "i", "n", "g">>, <<"d", "o">>, <<"d", "o", "e", "s">>, <<"d", "i", "d">>,
     <<"d", "o", "i", "n", "g">>, <<"a">>, <<"a", "n">>, <<"t", "h", "e">>, <<"a", "n", "d">>, <<"b", "u", "t">>, <<"i", "f">>, <<"o", "r">>,
     <<"b", "e", "c", "a", "u", "s", "e">>, <<"a", "s">>, <<"u", "n", "t", "i", "l">>, <<"w", "h", "i", "l", "e">>, <<"o", "f">>, <<"a", "t">>, <<"b", "y">>,
     <<"f", "o", "r">>, <<"w", "i", "t", "h">>, <<"a", "b", "o", "u", "t">>, <<"a", "g", "a", "i", "n", "s", "t">>, <<"b", "e", "t", "w", "e", "e", "n">>, <<"i", "n", "t", "o">>,
     <<"t", "h", "r", "o", "u", "g", "h">>, <<"d", "u", "r", "i", "n", "g">>, <<"b", "e", "f", "o", "r", "e">>, <<"a", "f", "t", "e", "r">>, <<"a", "b", "o", "v", "e">>, <<"b", "e", "l", "o", "w">>,
     <<"t", "o">>, <<"f", "r", "o", "m">>, <<"u", "p">>, <<"d", "o", "w", "n">>, <<"i", "n">>, <<"o", "u", "t">>, <<"o", "n">>, <<"o", "f", "f">>,
     <<"o", "v", "e", "r">>, <<"u", "n", "d", "e", "r">>, <<"a", "g", "a", "i", "n">>, <<"f", "u", "r", "t", "h", "e", "r">>, <<"t", "h", "e", "n">>, <<"o", "n", "c", "e">>,
     <<"h", "e", "r", "e">>, <<"t", "h", "e", "r", "e">>, <<"w", "h", "e", "n">>, <<"w", "h", "e", "r", "e">>, <<"w", "h", "y">>, <<"h", "o", "w">>, <<"a", "l", "l">>,
     <<"a", "n", "y">>, <<"b", "o", "t", "h">>, <<"e", "a", "c", "h">>, <<"f", "e", "w">>, <<"m", "o", "r", "e">>, <<"m", "o", "s", "t">>, <<"o", "t", "h", "e", "r">>,
     <<"s", "o", "m", "e">>, <<"s", "u", "c", "h">>, <<"n", "o">>, <<"n", "o", "r">>, <<"n", "o", "t">>, <<"o", "n", "l", "y">>, <<"o", "w", "n">>,
     <<"s", "a", "m", "e">>, <<"s", "o">>, <<"t", "h", "a", "n">>, <<"t", "o", "o">>, <<"v", "e", "r", "y">>, <<"s">>, <<"t">>, <<"c", "a", "n">>,
     <<"w", "i", "l", "l">>, <<"j", "u", "s", "t">>, <<"d", "o", "n">>, <<"s", "h", "o", "u", "l", "d">>, <<"n", "o", "w">>, <<"d">>, <<"l", "l">>,
     <<"m">>, <<"o">>, <<"r", "e">>, <<"v", "e">>, <<"y">>, <<"a", "i", "n">>, <<"a", "r", "e", "n">>, <<"c", "o", "u", "l", "d", "n">>,
     <<"d", "i", "d", "n">>, <<"d", "o", "e", "s", "n">>, <<"h", "a", "d", "n">>, <<"h", "a", "s", "n">>, <<"h", "a", "v", "e", "n">>, <<"i", "s", "n">>, <<"m", "a">>,
     <<"m", "i", "g", "h", "t", "n">>, <<"m", "u", "s", "t", "n">>, <<"n", "e", "e", "d", "n">>, <<"s", "h", "a", "n">>, <<"s", "h", "o", "u", "l", "d", "n">>, <<"w", "a", "s", "n">>,
     <<"w", "e", "r", "e", "n">>, <<"w", "o", "n">>, <<"w", "o", "u", "l", "d", "n">>}

\* self.conflict_keywords
conflict_keywords ==
    {<<"c", "o", "n", "f", "l", "i", "c", "t">>, <<"w", "a", "r">>, <<"p", "e", "a", "c", "e">>, <<"v", "i", "o", "l", "e", "n", "c", "e">>, <<"a", "t", "t", "a", "c", "k">>, <<"p", "r", "o", "t", "e", "s", "t">>,
     <<"d", "e", "m", "o", "n", "s", "t", "r", "a", "t", "i", "o", "n">>, <<"r", "i", "o", "t">>, <<"c", "l", "a", "s", "h">>, <<"t", "e", "n", "s", "i", "o", "n">>, <<"s", "e", "c", "u", "r", "i", "t", "y">>,
     <<"u", "n", "r", "e", "s", "t">>, <<"c", "e", "a", "s", "e", "f", "i", "r", "e">>, <<"m", "e", "d", "i", "a", "t", "i", "o", "n">>, <<"n", "e", "g", "o", "t", "i", "a", "t", "i", "o", "n">>}

\* self.stop_words = self.stop_words - self.conflict_keywords
stop_words == english_stopwords \ conflict_keywords

\* the nouns of WordNet among the forms of the tokens of the model
WordNetNouns == {<<"c", "a", "n">>, <<"p", "r", "o", "t", "e", "s", "t">>, <<"w", "a", "r">>, <<"a", "t", "t", "a", "c", "k">>, <<"h", "t", "t", "p">>}

\* WordNet's MORPHOLOGICAL_SUBSTITUTIONS for nouns
NounSubstitutions ==
    <<<<<<"s">>, <<>>>>, <<<<"s", "e", "s">>, <<"s">>>>, <<<<"v", "e", "s">>, <<"f">>>>, <<<<"x", "e", "s">>, <<"x">>>>,
      <<<<"z", "e", "s">>, <<"z">>>>, <<<<"c", "h", "e", "s">>, <<"c", "h">>>>, <<<<"s", "h", "e", "s">>, <<"s", "h">>>>,
      <<<<"m", "e", "n">>, <<"m", "a", "n">>>>, <<<<"i", "e", "s">>, <<"y">>>>>>

EndsWith(form, old) ==
    Len(old) <= Len(form) /\ SubSeq(form, Len(form) - Len(old) + 1, Len(form)) = old

\* [form[:-len(old)] + new for form in forms for old, new in substitutions
\*  if form.endswith(old)]
apply_rules(forms) ==
    Flatten([f \in 1..Len(forms) |->
        Flatten([r \in 1..Len(NounSubstitutions) |->
            IF EndsWith(forms[f], NounSubstitutions[r][1])
            THEN <<SubSeq(forms[f], 1, Len(forms[f]) - Len(NounSubstitutions[r][1]))
                       \o NounSubstitutions[r][2]>>
            ELSE <<>>])])

\* the forms that are nouns of WordNet, each once, in their order
RECURSIVE FilterFrom(_, _, _)
FilterFrom(forms, k, seen) ==
    IF k > Len(forms) THEN <<>>
    ELSE IF forms[k] \in WordNetNouns /\ forms[k] \notin seen
         THEN <<forms[k]>> \o FilterFrom(forms, k + 1, seen \cup {forms[k]})
         ELSE FilterFrom(forms, k + 1, seen)

filter_forms(forms) == FilterFrom(forms, 1, {})

\* the rules applied again and again until a form is a noun of WordNet
RECURSIVE MorphyLoop(_)
MorphyLoop(forms) ==
    IF forms = <<>> THEN <<>>
    ELSE IF filter_forms(apply_rules(forms)) # <<>>
         THEN filter_forms(apply_rules(forms))
         ELSE MorphyLoop(apply_rules(forms))

\* WordNetCorpusReader._morphy(form, 'n'); the tokens of the model are not in
\* the exception list
morphy(form) ==
    LET results == filter_forms(<<form>> \o apply_rules(<<form>>))
    IN  IF results # <<>> THEN results ELSE MorphyLoop(apply_rules(<<form>>))

\* WordNetLemmatizer.lemmatize(word): min(lemmas, key=len) if lemmas else word
lemmatize(word) ==
    LET lemmas == morphy(word)
    IN  IF lemmas = <<>> THEN word
        ELSE lemmas[CHOOSE k \in 1..Len(lemmas) :
                        /\ \A j \in 1..Len(lemmas) : Len(lemmas[k]) <= Len(lemmas[j])
                        /\ \A j \in 1..(k - 1) : Len(lemmas[j]) > Len(lemmas[k])]

\* the characters emoji.demojize replaces, with their names
EmojiNames == [ch \in {"U+1F600"} |-> <<":", "g", "r", "i", "n", "n", "i", "n", "g", "_", "f", "a", "c", "e", ":">>]

demojize(text) ==
    Flatten([k \in 1..Len(text) |->
                IF text[k] \in DOMAIN EmojiNames THEN EmojiNames[text[k]] ELSE <<text[k]>>])

\* the filter with a length test of >= 2
keep_token_two(token) == token \notin stop_words /\ Len(token) >= 2

\* token not in self.stop_words and len(token) > 2
keep_token(token) == token \notin stop_words /\ Len(token) > 2

\* ' '.join(tokens)
RECURSIVE join(_)
join(tokens) ==
    IF tokens = <<>> THEN <<>>
    ELSE IF Len(tokens) = 1 THEN tokens[1]
    ELSE tokens[1] \o <<" ">> \o join(Tail(tokens))

\* the text before it is tokenized (lines 38-52)
scrub(chars) ==
    demojize(remove_digits(blank_special(remove_hash(remove_mentions(
        remove_urls(lower(chars)))))))

clean_text(text) ==
    IF text.type # "str" THEN <<>>
    ELSE LET tokens == word_tokenize(scrub(text.chars))
             kept   == SelectSeq(tokens, keep_token)
         IN  join([k \in 1..Len(kept) |-> lemmatize(kept[k])])

\* the pieces the texts are made of
TextParts ==
    {<<"c", "a", "n", "s">>, <<"T", "h", "e", " ">>, <<"P", "r", "o", "t", "e", "s", "t", "s">>, <<" ", "o", "k", " ">>, <<"i", "s">>, <<"!">>, <<"h", "1", "t", "t", "p">>,
     <<"w", "a", "r">>, <<"@">>, <<"c", "a", "n", "n", "o", "t">>}

MaxTextParts == 3

AppendTextPart(part) ==
    /\ doc.passes = 0
    /\ doc.text.type = "str"
    /\ doc.parts < MaxTextParts
    /\ doc' = [doc EXCEPT !.text = Str(@.chars \o part), !.parts = @ + 1]
    /\ UNCHANGED <<coreVars, geoVars, reportVars, featuresVars, ensembleVars, prepVars, rankVars>>

\* cleaned = clean_text(text)
CleanText ==
    /\ doc.passes = 0
    /\ doc' = [doc EXCEPT !.passes = 1, !.cleaned = clean_text(doc.text)]
    /\ UNCHANGED <<coreVars, geoVars, reportVars, featuresVars, ensembleVars, prepVars, rankVars>>

\* again = clean_text(cleaned)
CleanAgain ==
    /\ doc.passes = 1
    /\ doc' = [doc EXCEPT !.passes = 2, !.again = clean_text(Str(doc.cleaned))]
    /\ UNCHANGED <<coreVars, geoVars, reportVars, featuresVars, ensembleVars, prepVars, rankVars>>

NextClean ==
    \/ \E part \in TextParts : AppendTextPart(part)
    \/ CleanText
    \/ CleanAgain

Docs ==
    [text : {Str(<<>>)} \cup NonStrings, parts : {0}, passes : {0},
     cleaned : {<<>>}, again : {<<>>}]

IdleDoc == [text |-> Str(<<>>), parts |-> 0, passes |-> 0, cleaned |-> <<>>, again |-> <<>>]

-----------------------------------------------------------------------------
(* DashboardGenerator.generate_monthly_report                              *)
(* (src/visualizations/dashboard_generator.py 155-222).  A call returns    *)
(* the report or raises, and works on the caller's frame.                  *)

ReportColumns == {"region", "date", "vader_compound", "conflict_intensity", "risk_level"}

\* the column sets of the batches: all columns, or one of them missing
ReportColumnSets == {ReportColumns} \cup {ReportColumns \ {c} : c \in ReportColumns}

\* the regions of the records, in the order of a sort
Regions == <<"Mombasa", "Nairobi">>

\* the days of January 2024 the records of a batch are dated, from the
\* first record on: a Saturday, a Sunday, and the days of the next week
Days == <<6, 7, 8, 9, 10>>

\* the scores of the records; the sums of these values are exact, so that
\* every order of summation gives the same mean
ReportKinds ==
    {[vader_compound |-> FromRatio(-1, 2), conflict_intensity |-> FromRatio(3, 4),
      risk_level |-> "High"],
     [vader_compound |-> FromRatio(1, 4), conflict_intensity |-> FromRatio(1, 4),
      risk_level |-> "Low"]}

ReportRecord(k, region, day, cols) ==
    [c \in cols |-> CASE c = "region" -> region
                      [] c = "date"   -> day
                      [] OTHER        -> k[c]]

\* np.rint: the nearest integer, ties to even
Rint(x) ==
    IF x.e >= 0 THEN x
    ELSE LET s      == -x.e
             q      == Shr(x.m, s)
             half   == Bit(x.m, s - 1) = 1
             sticky == ~LowZero(x.m, s - 1)
             odd    == Bit(q, 0) = 1
             up     == half /\ (sticky \/ odd)
         IN  Dyadic(x.neg, IF up THEN BigAdd(q, <<1>>) ELSE q, 0)

\* round(2) of numpy: rint(x * 100) / 100
round2(x) == FDivInt(Rint(FMul(x, FromInt(100))), 100)

IsHighRisk(row) == row.risk_level \in {"High", "Critical"}

\* high / size * 100
percentage(high, size) == FMul(FromRatio(high, size), FromInt(100))

\* x.isin(['High', 'Critical']).sum() / len(x) * 100
high_risk_share(rows) ==
    percentage(Cardinality({j \in 1..Len(rows) : IsHighRisk(rows[j])}), Len(rows))

\* the mean of a group
group_mean(rows, c) == FDivInt(SumFrom(Column(rows, c), 1, FZero), Len(rows))

\* the rows of a group of df.groupby(column)
Group(rows, column, key) == SelectSeq(rows, LAMBDA row : row[column] = key)

\* the keys of df.groupby('region'), sorted
RegionKeys(rows) ==
    SelectSeq(Regions, LAMBDA key : \E j \in 1..Len(rows) : rows[j].region = key)

\* the week of the ISO calendar of a day of January 2024
isocalendar_week(day) == (day - 1) \div 7 + 1

RECURSIVE Ascending(_, _)
Ascending(from, to) == IF from > to THEN <<>> ELSE <<from>> \o Ascending(from + 1, to)

\* the keys of df.groupby('week'), sorted
WeekKeys(rows) ==
    SelectSeq(Ascending(1, 5), LAMBDA key : \E j \in 1..Len(rows) : rows[j].week = key)

\* the position of the first greatest (least) value of a sequence
FirstMax(values) ==
    CHOOSE k \in 1..Len(values) :
        /\ \A j \in 1..Len(values) : FCmp(values[j], values[k]) <= 0
        /\ \A j \in 1..(k - 1) : FCmp(values[j], values[k]) < 0

FirstMin(values) ==
    CHOOSE k \in 1..Len(values) :
        /\ \A j \in 1..Len(values) : FCmp(values[j], values[k]) >= 0
        /\ \A j \in 1..(k - 1) : FCmp(values[j], values[k]) > 0

Without(s, k) == SubSeq(s, 1, k - 1) \o SubSeq(s, k + 1, Len(s))

\* regional_stats.nlargest(n, 'risk_level').index.tolist()
RECURSIVE nlargest(_, _, _)
nlargest(n, keys, values) ==
    IF n = 0 \/ keys = <<>> THEN <<>>
    ELSE LET k == FirstMax(values)
         IN  <<keys[k]>> \o nlargest(n - 1, Without(keys, k), Without(values, k))

\* df.groupby('region').agg({...}).round(2)
regional_stats(rows) ==
    LET keys == RegionKeys(rows)
    IN  [index |-> keys,
         vader_compound |->
             [k \in 1..Len(keys) |->
                 round2(group_mean(Group(rows, "region", keys[k]), "vader_compound"))],
         conflict_intensity |->
             [k \in 1..Len(keys) |->
                 round2(group_mean(Group(rows, "region", keys[k]), "conflict_intensity"))],
         risk_level |->
             [k \in 1..Len(keys) |->
                 round2(high_risk_share(Group(rows, "region", keys[k])))]]

\* df.groupby('week').agg({...}).reset_index() and the trends made of it
weekly_trends(rows) ==
    LET keys == WeekKeys(rows)
        shares == [k \in 1..Len(keys) |-> high_risk_share(Group(rows, "week", keys[k]))]
    IN  [weekly_sentiment_trend |->
             [k \in 1..Len(keys) |-> group_mean(Group(rows, "week", keys[k]), "vader_compound")],
         weekly_intensity_trend |->
             [k \in 1..Len(keys) |-> group_mean(Group(rows, "week", keys[k]), "conflict_intensity")],
         weekly_risk_trend |-> shares,
         peak_risk_week |-> keys[FirstMax(shares)]]

\* df['date'] = pd.to_datetime(df['date']); df['week'] = ...: the frame after it
WithWeek(batch) ==
    [columns    |-> batch.columns \cup {"week"},
     date_dtype |-> "datetime64[ns]",
     rows       |-> [j \in 1..Len(batch.rows) |->
                        [c \in batch.columns \cup {"week"} |->
                            IF c = "week" THEN isocalendar_week(batch.rows[j].date)
                            ELSE batch.rows[j][c]]]]

\* datetime.now().strftime('%Y-%m-%d %H:%M:%S') of a time in half seconds
strftime(now) == now \div 2

\* the recommendation of lines 198-200
recommendation(region) == "Increase monitoring and peacekeeping presence in " \o region

\* the recommendations of lines 197-200
recommendations(top_high_risk_regions) ==
    [k \in 1..Len(top_high_risk_regions) |-> recommendation(top_high_risk_regions[k])]

KeyError(key) == [raised |-> "KeyError", key |-> key]

\* idxmin of the empty regional_stats
ValueError == [raised |-> "ValueError"]

\* the columns the statements before the trend analysis read, in their order
ReadColumns == <<"risk_level", "vader_compound", "conflict_intensity", "region">>

\* the report dictionary of lines 157-222 and the caller's frame after the call,
\* given the regional statistics, the top regions and the frame with its week
monthly_report(batch, month, year, now, summation, stats, top_high_risk_regions, after) ==
    LET total_tweets     == Len(batch.rows)
        high_risk_tweets == Cardinality({j \in 1..total_tweets : IsHighRisk(batch.rows[j])})
    IN  [result |->
            [raised  |-> "no",
             month   |-> month,
             year    |-> year,
             generated_date |-> strftime(now),
             summary |->
                 [total_tweets_analyzed |-> total_tweets,
                  high_risk_tweets      |-> high_risk_tweets,
                  high_risk_percentage  |->
                      FMul(FromRatio(high_risk_tweets, total_tweets), FromInt(100)),
                  average_sentiment     |->
                      mean(Column(batch.rows, "vader_compound"), summation),
                  average_conflict_intensity |->
                      mean(Column(batch.rows, "conflict_intensity"), summation)],
             regional_analysis |-> stats,
             key_findings |->
                 [top_high_risk_regions |-> top_high_risk_regions,
                  most_negative_sentiment_region |->
                      stats.index[FirstMin(stats.vader_compound)],
                  highest_conflict_intensity_region |->
                      stats.index[FirstMax(stats.conflict_intensity)]],
             recommendations |-> recommendations(top_high_risk_regions),
             trends |-> IF "date" \in batch.columns
                        THEN <<weekly_trends(after.rows)>> ELSE <<>>,
             early_warnings |-> generate_early_warnings(after, summation)],
         df |-> after]

\* the key findings of lines 187-194 are taken from the regional statistics
regional_report(batch, month, year, now, summation, stats, after) ==
    monthly_report(batch, month, year, now, summation, stats,
                   nlargest(3, stats.index, stats.risk_level), after)

\* the result of the call, and the caller's frame after it
generate_monthly_report(batch, month, year, now, summation) ==
    LET missing == SelectSeq(ReadColumns, LAMBDA c : c \notin batch.columns)
    IN
    IF missing # <<>> THEN [result |-> KeyError(missing[1]), df |-> batch]
    ELSE IF batch.rows = <<>> THEN [result |-> ValueError, df |-> batch]
    ELSE regional_report(batch, month, year, now, summation, regional_stats(batch.rows),
                         IF "date" \in batch.columns THEN WithWeek(batch) ELSE batch)

MaxReportRecords == 2

\* the times of the calls, in half seconds
Times == {0, 1, 2}

Months == {"January"}
Years == {2024}

\* the caller appends a record to the batch
AddReportRecord(k, region) ==
    /\ report.calls = <<>>
    /\ Len(report.df.rows) < MaxReportRecords
    /\ report' = [report EXCEPT !.df.rows =
                     Append(@, ReportRecord(k, region, Days[Len(@) + 1], report.df.columns))]
    /\ UNCHANGED <<coreVars, geoVars, cleanVars, featuresVars, ensembleVars, prepVars, rankVars>>

\* a call at the time now, not before the call before it
\* the caller's frame and the record of the call once it has returned or raised
ReportCall(r, month, year, now, call) ==
    [df    |-> call.df,
     calls |-> Append(r.calls, [input |-> r.df, month |-> month, year |-> year,
                                at |-> now, result |-> call.result])]

GenerateMonthlyReport(month, year, now) ==
    /\ Len(report.calls) < 2
    /\ \A j \in 1..Len(report.calls) : report.calls[j].at <= now
    /\ \E summation \in Summations :
           report' = ReportCall(report, month, year, now,
                                generate_monthly_report(report.df, month, year, now,
                                                        summation))
    /\ UNCHANGED <<coreVars, geoVars, cleanVars, featuresVars, ensembleVars, prepVars, rankVars>>

NextReport ==
    \/ \E k \in ReportKinds, region \in {Regions[j] : j \in 1..Len(Regions)} :
           AddReportRecord(k, region)
    \/ \E month \in Months, year \in Years, now \in Times :
           GenerateMonthlyReport(month, year, now)

ReportBatches ==
    [df : [columns : ReportColumnSets, date_dtype : {"object"}, rows : {<<>>}],
     calls : {<<>>}]

IdleReport ==
    [df |-> [columns |-> ReportColumns, date_dtype |-> "object", rows |-> <<>>],
     calls |-> <<>>]

-----------------------------------------------------------------------------
(* FeatureEngineer (src/preprocessing/feature_engineering.py).  Frames are *)
(* objects of a heap: a call gets the caller's frame and returns a frame,  *)
(* or raises.                                                              *)

FeatureColumns ==
    {"created_at", "retweet_count", "favorite_count", "user_location", "date",
     "region", "vader_compound"}

\* the column sets of the batches: all columns, or one of them missing
FeatureColumnSets == {FeatureColumns} \cup {FeatureColumns \ {c} : c \in FeatureColumns}

\* the records the batches are made of
FeatureRecords ==
    {[created_at |-> "2024-01-06 10:00:00", retweet_count |-> 3, favorite_count |-> 1,
      user_location |-> Str(<<"N", "a", "i", "r", "o", "b", "i", " ", "C", "B", "D">>), date |-> 2, region |-> "Nairobi",
      vader_compound |-> FromRatio(-1, 2)],
     [created_at |-> "2024-01-01 23:00:00", retweet_count |-> 0, favorite_count |-> 0,
      user_location |-> [type |-> "NoneType"], date |-> 1, region |-> "Mombasa",
      vader_compound |-> FromRatio(1, 4)],
     [created_at |-> "not a date", retweet_count |-> 10, favorite_count |-> 2,
      user_location |-> Str(<<"L", "a", "k", "e", " ", "V", "i", "e", "w">>), date |-> 1, region |-> "Nairobi",
      vader_compound |-> FromRatio(3, 4)]}

Restrict(row, cols) == [c \in cols |-> row[c]]

\* a row with the cells of extra added or replaced
Extend(row, extra) ==
    [c \in DOMAIN row \cup DOMAIN extra |-> IF c \in DOMAIN extra THEN extra[c] ELSE row[c]]

\* df[name] = ... for the names given: the frame with the columns, and
\* with the cells of extra[j] added to or replaced in row j
Assign(frame, names, extra) ==
    [columns |-> frame.columns \cup names,
     rows    |-> [j \in 1..Len(frame.rows) |-> Extend(frame.rows[j], extra[j])]]

\* the frame at the same place of the heap, in place of a copy
copy_alias(heap, ref) == [heap |-> heap, df |-> ref]

\* df = df.copy(): a new frame with the data of df
copy(heap, ref) == [heap |-> Append(heap, heap[ref]), df |-> Len(heap) + 1]

Return(heap, ref) == [heap |-> heap, result |-> [raised |-> "no", df |-> ref]]
Raise(heap, error) == [heap |-> heap, result |-> [raised |-> error]]

\* pd.to_datetime of a string: the timestamp, or no timestamp
Timestamps ==
    [s \in {"2024-01-06 10:00:00", "2024-01-01 23:00:00"} |->
        IF s = "2024-01-06 10:00:00"
        THEN [year |-> 2024, month |-> 1, day |-> 6, hour |-> 10]
        ELSE [year |-> 2024, month |-> 1, day |-> 1, hour |-> 23]]

IsDate(s) == s \in DOMAIN Timestamps

\* the day of the week of a day of January 2024, Monday = 0
dayofweek(t) == (t.day - 1) % 7

\* holidays.Ke(): no year is given, so no holiday is loaded for isin
kenya_holidays == {}

\* np.sin(2 * np.pi * x / period), np.cos(...): kept as terms
Sin(x, period) == [fn |-> "sin", of |-> <<2, "pi", x, period>>]
Cos(x, period) == [fn |-> "cos", of |-> <<2, "pi", x, period>>]

\* the columns of lines 19-34
temporal_columns ==
    {"year", "month", "week", "day", "dayofweek", "hour", "is_weekend", "is_holiday",
     "month_sin", "month_cos", "day_sin", "day_cos", "hour_sin", "hour_cos"}

\* the temporal features of a timestamp (lines 19-34)
temporal(t) ==
    [year |-> t.year, month |-> t.month, week |-> isocalendar_week(t.day),
     day |-> t.day, dayofweek |-> dayofweek(t), hour |-> t.hour,
     is_weekend |-> IF dayofweek(t) \in {5, 6} THEN 1 ELSE 0,
     is_holiday |-> IF <<t.year, t.month, t.day>> \in kenya_holidays THEN 1 ELSE 0,
     month_sin |-> Sin(t.month, 12), month_cos |-> Cos(t.month, 12),
     day_sin |-> Sin(t.day, 31), day_cos |-> Cos(t.day, 31),
     hour_sin |-> Sin(t.hour, 24), hour_cos |-> Cos(t.hour, 24)]

create_temporal_features(heap, ref, date_column) ==
    LET c     == copy(heap, ref)
        frame == c.heap[c.df]
    IN  IF date_column \notin frame.columns THEN Return(c.heap, c.df)
        ELSE IF \E j \in 1..Len(frame.rows) : ~IsDate(frame.rows[j][date_column])
        THEN Raise(c.heap, "ValueError")
        ELSE Return([c.heap EXCEPT ![c.df] =
                        Assign(frame, temporal_columns \cup {date_column},
                               [j \in 1..Len(frame.rows) |->
                                   LET t == Timestamps[frame.rows[j][date_column]]
                                   IN  Extend(temporal(t), (date_column :> t))])],
                    c.df)

\* the number of values less than x (or not greater than x)
CountLess(values, x, strict) ==
    Cardinality({j \in 1..Len(values) : IF strict THEN values[j] < x ELSE values[j] <= x})

\* x > median of the values
AboveMedian(values, x) ==
    LET n    == Len(values)
        \* the k-th smallest value
        Kth(k) == CHOOSE v \in {values[j] : j \in 1..n} :
                      CountLess(values, v, TRUE) < k /\ k <= CountLess(values, v, FALSE)
    IN  IF n % 2 = 1 THEN x > Kth((n + 1) \div 2)
        ELSE 2 * x > Kth(n \div 2) + Kth(n \div 2 + 1)

RECURSIVE MaxOf(_)
MaxOf(values) ==
    IF Len(values) = 1 THEN values[1] ELSE Max(values[1], MaxOf(Tail(values)))

create_engagement_features(heap, ref) ==
    LET c     == copy(heap, ref)
        frame == c.heap[c.df]
        total == [j \in 1..Len(frame.rows) |->
                     frame.rows[j].retweet_count + frame.rows[j].favorite_count]
    IN  IF {"retweet_count", "favorite_count"} \subseteq frame.columns
        THEN Return([c.heap EXCEPT ![c.df] =
                        Assign(frame,
                               {"total_engagement", "engagement_rate",
                                "has_high_engagement"},
                               [j \in 1..Len(frame.rows) |->
                                   [total_engagement |-> total[j],
                                    engagement_rate |-> FromRatio(total[j], MaxOf(total) + 1),
                                    has_high_engagement |->
                                        IF AboveMedian(total, total[j]) THEN 1 ELSE 0]])],
                    c.df)
        ELSE Return(c.heap, c.df)

\* the keys of region_coords
RegionCoords == {"Nairobi", "Mombasa"}

create_geo_features(heap, ref, region_coords) ==
    LET c     == copy(heap, ref)
        frame == c.heap[c.df]
    IN  IF "user_location" \in frame.columns
        THEN Return([c.heap EXCEPT ![c.df] =
                        Assign(frame,
                               {"region"} \cup {"region_" \o k : k \in region_coords},
                               [j \in 1..Len(frame.rows) |->
                                   LET region == map_location_to_region(frame.rows[j].user_location)
                                   IN  Extend([r \in {"region_" \o k : k \in region_coords} |->
                                                  IF r = "region_" \o region THEN 1 ELSE 0],
                                              [region |-> region])])],
                    c.df)
        ELSE Return(c.heap, c.df)

\* the place of a region in the order of a sort
RegionRank(region) == CHOOSE k \in 1..Len(Regions) : Regions[k] = region

\* df.sort_values(['date', group_column]): a stable sort
RECURSIVE InsertByKey(_, _, _)
InsertByKey(sorted, r, group_column) ==
    IF sorted = <<>> THEN <<r>>
    ELSE LET last == sorted[Len(sorted)]
         IN  IF \/ last.date < r.date
                \/ /\ last.date = r.date
                   /\ RegionRank(last[group_column]) <= RegionRank(r[group_column])
             THEN Append(sorted, r)
             ELSE Append(InsertByKey(SubSeq(sorted, 1, Len(sorted) - 1), r, group_column),
                         last)

RECURSIVE SortByKeyFrom(_, _, _, _)
SortByKeyFrom(rows, i, sorted, group_column) ==
    IF i > Len(rows) THEN sorted
    ELSE SortByKeyFrom(rows, i + 1, InsertByKey(sorted, rows[i], group_column), group_column)

\* the rows of the group of row j that are not after it, in their order
GroupUpTo(rows, j, group_column) ==
    SelectSeq(SubSeq(rows, 1, j), LAMBDA row : row[group_column] = rows[j][group_column])

\* [value_column].shift(lag) at row j, without the groupby
shift_frame(rows, j, group_column, value_column, lag) ==
    IF j > lag THEN Num(rows[j - lag][value_column]) ELSE NaN

\* groupby(group_column)[value_column].shift(lag) at row j
shift(rows, j, group_column, value_column, lag) ==
    LET group == GroupUpTo(rows, j, group_column)
    IN  IF Len(group) > lag THEN Num(group[Len(group) - lag][value_column]) ELSE NaN

\* x.rolling(lag, min_periods=1).mean() at row j of its group; the sums of
\* the values of the model are exact
rolling_mean(rows, j, group_column, value_column, lag) ==
    LET window == tail(GroupUpTo(rows, j, group_column), lag)
    IN  FDivInt(SumFrom(Column(window, value_column), 1, FZero), Len(window))

\* the default of the parameter lag_periods
lag_periods == <<1, 7, 30>>

\* the lag_periods of the calls: the default, or short lags
LagPeriods == {lag_periods, <<1, 2>>}

RECURSIVE LagFeaturesFrom(_, _, _, _, _)
LagFeaturesFrom(frame, value_column, group_column, periods, k) ==
    IF k > Len(periods) THEN frame
    ELSE LET lag == periods[k]
         IN  LagFeaturesFrom(
                 Assign(frame,
                        {value_column \o "_lag_" \o ToString(lag),
                         value_column \o "_rolling_mean_" \o ToString(lag)},
                        [j \in 1..Len(frame.rows) |->
                            ((value_column \o "_lag_" \o ToString(lag)) :>
                                 shift(frame.rows, j, group_column, value_column, lag))
                            @@ ((value_column \o "_rolling_mean_" \o ToString(lag)) :>
                                 Num(rolling_mean(frame.rows, j, group_column, value_column, lag)))]),
                 value_column, group_column, periods, k + 1)

create_lag_features(heap, ref, value_column, group_column, periods) ==
    LET c     == copy(heap, ref)
        frame == c.heap[c.df]
    IN  IF "date" \notin frame.columns THEN Raise(c.heap, "KeyError")
        ELSE IF group_column \notin frame.columns THEN Raise(c.heap, "KeyError")
        ELSE LET sorted == [frame EXCEPT !.rows = SortByKeyFrom(@, 1, <<>>, group_column)]
                 heap1  == [c.heap EXCEPT ![c.df] = sorted]
             IN  IF value_column \notin frame.columns THEN Raise(heap1, "KeyError")
                 ELSE Return([heap1 EXCEPT ![c.df] =
                                 LagFeaturesFrom(sorted, value_column, group_column, periods, 1)],
                             c.df)

MaxFeatureRecords == 3

\* the caller appends a record to its frame
AddFeatureRecord(r) ==
    /\ fe.called = "none"
    /\ Len(fe.heap[fe.input].rows) < MaxFeatureRecords
    /\ fe' = [fe EXCEPT !.heap[fe.input].rows =
                 Append(@, Restrict(r, fe.heap[fe.input].columns))]
    /\ UNCHANGED <<coreVars, geoVars, cleanVars, reportVars, ensembleVars, prepVars, rankVars>>

\* the state after a call of a method: the heap, the frame given as it was
\* before the call, and the result
Called(method, call) ==
    /\ fe.called = "none"
    /\ fe' = [fe EXCEPT !.called = method, !.before = fe.heap[fe.input],
                        !.heap = call.heap, !.result = call.result]
    /\ UNCHANGED <<coreVars, geoVars, cleanVars, reportVars, ensembleVars, prepVars, rankVars>>

CreateTemporalFeatures ==
    Called("create_temporal_features",
           create_temporal_features(fe.heap, fe.input, "created_at"))

CreateEngagementFeatures ==
    Called("create_engagement_features", create_engagement_features(fe.heap, fe.input))

CreateGeoFeatures ==
    Called("create_geo_features", create_geo_features(fe.heap, fe.input, RegionCoords))

CreateLagFeatures ==
    \E periods \in LagPeriods :
        Called("create_lag_features",
               create_lag_features(fe.heap, fe.input, "vader_compound", "region", periods))

NextFeatures ==
    \/ \E r \in FeatureRecords : AddFeatureRecord(r)
    \/ CreateTemporalFeatures
    \/ CreateEngagementFeatures
    \/ CreateGeoFeatures
    \/ CreateLagFeatures

EmptyFrame(cols) == [columns |-> cols, rows |-> <<>>]

FeatureCalls ==
    [heap : {<<EmptyFrame(cols)>> : cols \in FeatureColumnSets}, input : {1},
     called : {"none"}, before : {EmptyFrame({})}, result : {[raised |-> "no call"]}]

IdleFeatures ==
    [heap |-> <<EmptyFrame(FeatureColumns)>>, input |-> 1, called |-> "none",
     before |-> EmptyFrame({}), result |-> [raised |-> "no call"]]

-----------------------------------------------------------------------------
(* ConflictEnsembleModel (src/models/ensemble_model.py): a soft-voting     *)
(* classifier of five base learners.                                       *)

\* the element of a set of one element
Only(S) == CHOOSE z \in S : TRUE

\* a step of the long division by b > 0: the quotient q of the bits above,
\* and r2 = 2 * remainder + the next bit
DivStep(q, r2, b) ==
    IF BigCmp(r2, b) >= 0
    THEN [q |-> BigAdd(MulSmall(q, 2), <<1>>), r |-> BigSub(r2, b)]
    ELSE [q |-> MulSmall(q, 2), r |-> r2]

\* the long division by b continued with the bits hi - 1, ..., lo of a, from
\* the quotient and the remainder st of the bits above; the bits are taken
\* half by half
RECURSIVE DivBits(_, _, _, _, _)
DivBits(a, b, st, lo, hi) ==
    IF hi - lo = 1
    THEN Only({DivStep(st.q, r2, b) :
                  r2 \in {BigAdd(MulSmall(st.r, 2),
                                 IF Bit(a, lo) = 1 THEN <<1>> ELSE <<>>)}})
    ELSE Only({DivBits(a, b, upper, lo, (lo + hi) \div 2) :
                  upper \in {DivBits(a, b, st, (lo + hi) \div 2, hi)}})

\* the quotient and the remainder of a by b > 0; the bits of a above the
\* lowest `low' bits are less than b
BigDivMod(a, b) ==
    LET low == Max(0, BitLen(a) - BitLen(b) + 1)
    IN  IF low = 0 THEN [q |-> <<>>, r |-> a]
        ELSE DivBits(a, b, [q |-> <<>>, r |-> Shr(a, low)], 0, low)

\* x / y for y # 0, correctly rounded
FDiv(x, y) ==
    IF x.m = <<>> THEN FZero
    ELSE LET k == Max(0, Precision + 2 + BitLen(y.m) - BitLen(x.m))
         IN  Only({RoundNearestEven(x.neg # y.neg,
                                    BigAdd(MulSmall(qr.q, 2),
                                           IF qr.r = <<>> THEN <<>> ELSE <<1>>),
                                    x.e - y.e - k - 1) :
                      qr \in {Only({BigDivMod(a, y.m) : a \in {Shl(x.m, k)}})}})

\* the names of self.models, in the order of the dict
Learners == <<"rf", "gb", "xgb", "svm", "mlp">>

\* weights=[1.0, 1.2, 1.1, 0.8, 0.9]
VotingWeights ==
    <<FromInt(1), FromRatio(12, 10), FromRatio(11, 10), FromRatio(8, 10), FromRatio(9, 10)>>

\* the sum of the products p[i] * w[i] over the learners, added in their
\* order, without the division by the sum of the weights
weighted_sum(probas, weights) ==
    [c \in 1..Len(probas[1]) |->
        SumFrom([i \in 1..Len(weights) |-> FMul(probas[i][c], weights[i])], 2,
                FMul(probas[1][c], weights[1]))]

\* np.average(probas, axis=0, weights=weights) of soft voting:
\* np.multiply(a, wgt).sum(axis=0) / wgt.sum(axis=0)
average(probas, weights) ==
    [c \in 1..Len(probas[1]) |->
        FDiv(SumFrom([i \in 1..Len(weights) |-> FMul(probas[i][c], weights[i])], 2,
                     FMul(probas[1][c], weights[1])),
             SumFrom(weights, 2, weights[1]))]

\* the numbers of classes of the labels given to fit
ClassCounts == {2, 3}

\* the class probabilities a fitted base learner gives for a row
ProbaVectors(n_classes) ==
    IF n_classes = 2
    THEN {<<FromRatio(3, 10), FromRatio(7, 10)>>, <<FromRatio(1, 2), FromRatio(1, 2)>>,
          <<FromRatio(9, 10), FromRatio(1, 10)>>}
    ELSE {<<FromRatio(2, 10), FromRatio(3, 10), FromRatio(5, 10)>>,
          <<FromRatio(1, 10), FromRatio(2, 10), FromRatio(7, 10)>>}

\* np.argmax: the first place of the greatest entry
argmax(values) == FirstMax(values)

\* None
None == [type |-> "NoneType"]

\* self.models = {}; self.ensemble = None; self.classes_ = None
NotFitted == [models |-> <<>>, ensemble |-> None, classes_ |-> None]

\* fit(X, y) with labels of n_classes classes: the estimators of self.models
\* are cloned by the VotingClassifier, which fits the clones
Fit(n_classes) ==
    /\ ens.calls = <<>>
    /\ ens' = [ens EXCEPT
                  !.self = [models    |-> [i \in 1..Len(Learners) |->
                                              [name |-> Learners[i], fitted |-> FALSE]],
                            ensemble  |-> [type        |-> "VotingClassifier",
                                           voting      |-> "soft",
                                           weights     |-> VotingWeights,
                                           estimators_ |->
                                               [i \in 1..Len(Learners) |->
                                                   [name |-> Learners[i], fitted |-> TRUE]]],
                            classes_  |-> [c \in 1..n_classes |-> c - 1]]]
    /\ UNCHANGED <<coreVars, geoVars, cleanVars, reportVars, featuresVars, prepVars, rankVars>>

EnsembleCall(op, result) ==
    /\ ens.calls = <<>>
    /\ ens' = [ens EXCEPT !.calls = <<[op |-> op, result |-> result]>>]
    /\ UNCHANGED <<coreVars, geoVars, cleanVars, reportVars, featuresVars, prepVars, rankVars>>

\* predict_proba(X) for a row: the base learners give probas for it
EnsemblePredictProba ==
    IF ens.self.ensemble.type = "NoneType"
    THEN EnsembleCall("predict_proba", [raised |-> "AttributeError"])
    ELSE \E probas \in [1..Len(Learners) -> ProbaVectors(Len(ens.self.classes_))] :
             EnsembleCall("predict_proba",
                          [raised |-> "no", probas |-> probas,
                           value  |-> average(probas, ens.self.ensemble.weights)])

\* predict(X) for a row: the class with the greatest averaged probability
EnsemblePredict ==
    IF ens.self.ensemble.type = "NoneType"
    THEN EnsembleCall("predict", [raised |-> "AttributeError"])
    ELSE \E probas \in [1..Len(Learners) -> ProbaVectors(Len(ens.self.classes_))] :
             EnsembleCall("predict",
                          [raised |-> "no", probas |-> probas,
                           value  |-> ens.self.classes_[
                               argmax(average(probas, ens.self.ensemble.weights))]])

\* get_model_performance(X_test, y_test): predict of the first estimator of
\* self.models, which was never fitted; with no model, self.predict
GetModelPerformance ==
    IF ens.self.models = <<>>
    THEN EnsembleCall("get_model_performance", [raised |-> "AttributeError"])
    ELSE EnsembleCall("get_model_performance",
                      [raised |-> IF ens.self.models[1].fitted THEN "no"
                                  ELSE "NotFittedError"])

NextEnsemble ==
    \/ \E n_classes \in ClassCounts : Fit(n_classes)
    \/ EnsemblePredictProba
    \/ EnsemblePredict
    \/ GetModelPerformance

IdleEnsemble == [self |-> NotFitted, calls |-> <<>>]

-----------------------------------------------------------------------------
(* ConflictPredictor.prepare_features (src/models/conflict_predictor.py    *)
(* 48-71).  The selection reads the names of the columns of the batch, not  *)
(* its values: a batch is known by its columns, in their order.             *)

\* feature_columns = [...] (51-55)
core_feature_columns ==
    <<<<"p", "o", "l", "a", "r", "i", "t", "y", "_", "t", "b">>, <<"v", "a", "d", "e", "r", "_", "c", "o", "m", "p", "o", "u", "n", "d">>, <<"c", "o", "n", "f", "l", "i", "c", "t", "_", "i", "n", "t", "e", "n", "s", "i", "t", "y">>,
      <<"t", "o", "t", "a", "l", "_", "e", "n", "g", "a", "g", "e", "m", "e", "n", "t">>, <<"e", "n", "g", "a", "g", "e", "m", "e", "n", "t", "_", "r", "a", "t", "e">>, <<"d", "a", "y", "o", "f", "w", "e", "e", "k">>, <<"h", "o", "u", "r">>,
      <<"m", "o", "n", "t", "h", "_", "s", "i", "n">>, <<"m", "o", "n", "t", "h", "_", "c", "o", "s">>, <<"h", "o", "u", "r", "_", "s", "i", "n">>, <<"h", "o", "u", "r", "_", "c", "o", "s">>>>

\* col in df.columns
HasColumn(columns, col) == \E j \in 1..Len(columns) : columns[j] = col

\* col.startswith(prefix)
startswith(col, prefix) == StartsWithAt(col, prefix, 1)

\* [col for col in df.columns if col.startswith('region_')]
region_cols(columns) == SelectSeq(columns, LAMBDA col : startswith(col, <<"r", "e", "g", "i", "o", "n", "_">>))

\* [col for col in df.columns if 'lag' in col or 'rolling' in col]
lag_cols(columns) ==
    SelectSeq(columns, LAMBDA col : Contains(<<"l", "a", "g">>, col) \/ Contains(<<"r", "o", "l", "l", "i", "n", "g">>, col))

\* the list as it is before line 66
existing_or_not(feature_columns, columns) == feature_columns

\* [col for col in feature_columns if col in df.columns]
existing(feature_columns, columns) ==
    SelectSeq(feature_columns, LAMBDA col : HasColumn(columns, col))

\* the call returns X, y, feature_columns, or df[target_column] raises
prepare_features(columns, target_column) ==
    LET feature_columns ==
            existing(core_feature_columns \o region_cols(columns) \o lag_cols(columns),
                     columns)
    IN  IF ~HasColumn(columns, target_column) THEN KeyError(target_column)
        ELSE [raised |-> "no", X |-> feature_columns, y |-> target_column,
              feature_columns |-> feature_columns]

\* the names of the columns of the batches
ColumnNames ==
    {<<"p", "o", "l", "a", "r", "i", "t", "y", "_", "t", "b">>, <<"h", "o", "u", "r">>, <<"r", "e", "g", "i", "o", "n", "_", "N", "a", "i", "r", "o", "b", "i">>, <<"r", "e", "g", "i", "o", "n", "_", "N", "a", "i", "r", "o", "b", "i", "_", "l", "a", "g", "_", "1">>,
     <<"v", "a", "d", "e", "r", "_", "c", "o", "m", "p", "o", "u", "n", "d", "_", "r", "o", "l", "l", "i", "n", "g", "_", "m", "e", "a", "n", "_", "7">>, <<"c", "o", "n", "f", "l", "i", "c", "t", "_", "r", "i", "s", "k">>, <<"t", "e", "x", "t">>, <<"f", "l", "a", "g", "g", "e", "d">>}

MaxPrepColumns == 4

\* the caller adds a column to the batch
AddColumn(col) ==
    /\ ~prep.called
    /\ Len(prep.columns) < MaxPrepColumns
    /\ ~HasColumn(prep.columns, col)
    /\ prep' = [prep EXCEPT !.columns = Append(@, col)]
    /\ UNCHANGED <<coreVars, geoVars, cleanVars, reportVars, featuresVars, ensembleVars,
                   rankVars>>

\* prepare_features(df) with the default target_column
PrepareFeatures ==
    /\ ~prep.called
    /\ prep' = [prep EXCEPT !.called = TRUE,
                            !.result = prepare_features(prep.columns, <<"c", "o", "n", "f", "l", "i", "c", "t", "_", "r", "i", "s", "k">>)]
    /\ UNCHANGED <<coreVars, geoVars, cleanVars, reportVars, featuresVars, ensembleVars,
                   rankVars>>

NextPrep ==
    \/ \E col \in ColumnNames : AddColumn(col)
    \/ PrepareFeatures

IdlePrep == [columns |-> <<>>, called |-> FALSE, result |-> [raised |-> "no call"]]

-----------------------------------------------------------------------------
(* The regional analysis of generate_monthly_report (dashboard_generator.py *)
(* 180-200) on batches of any size.  A batch is given by its groups: for    *)
(* each region, in the order of the sorted keys, the number of its records  *)
(* and the number of them rated High or Critical, which is all the          *)
(* risk_level column of regional_stats is made of.                          *)

\* the keys of df.groupby('region'), sorted
RankedRegions == <<"Eldoret", "Kisumu", "Meru", "Mombasa", "Nairobi", "Nakuru">>

\* the groups of the batches: the records rated High or Critical, and the records
GroupSizes ==
    {[high |-> 0, size |-> 1], [high |-> 1, size |-> 1], [high |-> 1, size |-> 2],
     [high |-> 1, size |-> 101], [high |-> 2, size |-> 203]}

MaxGroups == 4

\* regional_stats['risk_level'] of lines 180-185
risk_level_column(groups) ==
    [k \in 1..Len(groups) |-> round2(percentage(groups[k].high, groups[k].size))]

\* the key findings and the recommendations of lines 189-200
key_findings(groups) ==
    IF groups = <<>> THEN ValueError
    ELSE LET top_high_risk_regions ==
                 nlargest(3, SubSeq(RankedRegions, 1, Len(groups)), risk_level_column(groups))
         IN  [raised |-> "no",
              regional_analysis     |-> risk_level_column(groups),
              top_high_risk_regions |-> top_high_risk_regions,
              recommendations       |-> recommendations(top_high_risk_regions)]

\* the batch has the records of one more region
AddGroup(g) ==
    /\ ~ranking.called
    /\ Len(ranking.groups) < MaxGroups
    /\ ranking' = [ranking EXCEPT !.groups = Append(@, g)]
    /\ UNCHANGED <<coreVars, geoVars, cleanVars, reportVars, featuresVars, ensembleVars,
                   prepVars>>

\* generate_monthly_report(df, month, year) for the batch
RankRegions ==
    /\ ~ranking.called
    /\ ranking' = [ranking EXCEPT !.called = TRUE, !.result = key_findings(ranking.groups)]
    /\ UNCHANGED <<coreVars, geoVars, cleanVars, reportVars, featuresVars, ensembleVars,
                   prepVars>>

NextRank ==
    \/ \E g \in GroupSizes : AddGroup(g)
    \/ RankRegions

IdleRanking == [groups |-> <<>>, called |-> FALSE, result |-> [raised |-> "no call"]]

IdleRisk == CHOOSE r \in RiskArgs : TRUE
IdlePost == CHOOSE p \in Posts : p.type = "str"

-----------------------------------------------------------------------------
(* Specifications: one per component; the other components stay idle.      *)

IdlePredictor ==
    /\ InitPredictor
    /\ model_type = [i \in Predictors |-> "random_forest"]

IdleWarn ==
    /\ df = IdleBatch
    /\ early_warnings = NotCalled

IdleLater ==
    /\ geo = IdleGeo
    /\ doc = IdleDoc
    /\ report = IdleReport
    /\ fe = IdleFeatures
    /\ ens = IdleEnsemble
    /\ prep = IdlePrep
    /\ ranking = IdleRanking

InitRisk ==
    /\ risk \in RiskArgs
    /\ post = IdlePost
    /\ IdlePredictor
    /\ IdleWarn
    /\ IdleLater

SpecRisk == InitRisk /\ [][NextRisk]_vars

InitScore ==
    /\ risk = IdleRisk
    /\ post \in Posts
    /\ IdlePredictor
    /\ IdleWarn
    /\ IdleLater

SpecScore == InitScore /\ [][NextScore]_vars

Init ==
    /\ risk = IdleRisk
    /\ post = IdlePost
    /\ InitPredictor
    /\ IdleWarn
    /\ IdleLater

Spec == Init /\ [][Next]_vars

SpecSequential == Init /\ [][NextSequential]_vars

InitWarn ==
    /\ risk = IdleRisk
    /\ post = IdlePost
    /\ IdlePredictor
    /\ df \in Batches
    /\ early_warnings = NotCalled
    /\ IdleLater

SpecWarn == InitWarn /\ [][NextWarn]_vars

IdleCore ==
    /\ risk = IdleRisk
    /\ post = IdlePost
    /\ IdlePredictor
    /\ IdleWarn

InitGeo ==
    /\ IdleCore
    /\ geo \in Locations
    /\ doc = IdleDoc
    /\ report = IdleReport
    /\ fe = IdleFeatures
    /\ ens = IdleEnsemble
    /\ prep = IdlePrep
    /\ ranking = IdleRanking

SpecGeo == InitGeo /\ [][NextGeo]_vars

InitClean ==
    /\ IdleCore
    /\ geo = IdleGeo
    /\ doc \in Docs
    /\ report = IdleReport
    /\ fe = IdleFeatures
    /\ ens = IdleEnsemble
    /\ prep = IdlePrep
    /\ ranking = IdleRanking

SpecClean == InitClean /\ [][NextClean]_vars

InitReport ==
    /\ IdleCore
    /\ geo = IdleGeo
    /\ doc = IdleDoc
    /\ report \in ReportBatches
    /\ fe = IdleFeatures
    /\ ens = IdleEnsemble
    /\ prep = IdlePrep
    /\ ranking = IdleRanking

SpecReport == InitReport /\ [][NextReport]_vars

InitFeatures ==
    /\ IdleCore
    /\ geo = IdleGeo
    /\ doc = IdleDoc
    /\ report = IdleReport
    /\ fe \in FeatureCalls
    /\ ens = IdleEnsemble
    /\ prep = IdlePrep
    /\ ranking = IdleRanking

SpecFeatures == InitFeatures /\ [][NextFeatures]_vars

InitEnsemble ==
    /\ IdleCore
    /\ geo = IdleGeo
    /\ doc = IdleDoc
    /\ report = IdleReport
    /\ fe = IdleFeatures
    /\ ens = IdleEnsemble
    /\ prep = IdlePrep
    /\ ranking = IdleRanking

SpecEnsemble == InitEnsemble /\ [][NextEnsemble]_vars

InitPrep ==
    /\ IdleCore
    /\ IdleLater

SpecPrep == InitPrep /\ [][NextPrep]_vars

InitRank ==
    /\ IdleCore
    /\ IdleLater

SpecRank == InitRank /\ [][NextRank]_vars

-----------------------------------------------------------------------------
(* Claims about the risk level.                                            *)

Rank(level) ==
    CASE level = "Low" -> 0 [] level = "Medium" -> 1
      [] level = "High" -> 2 [] level = "Critical" -> 3

\* 10 * (0.4*|c| + 0.6*i) in the rationals, no rounding
ExactScoreTimes10(c, i) == ExactAdd(ExactScale(FAbs(c), 4), ExactScale(i, 6))

ExactRiskLevel(c, i) ==
    LET s == ExactScoreTimes10(c, i) IN
    IF FGt(s, FromInt(7)) THEN "Critical"
    ELSE IF FGt(s, FromInt(5)) THEN "High"
    ELSE IF FGt(s, FromInt(3)) THEN "Medium"
    ELSE "Low"

\* C1: the level returned for (c, i) is the band of the number 0.4*|c| + 0.6*i,
\* with strict comparisons: a score of exactly 0.7, 0.5 or 0.3 falls to the
\* lower band.
C1_LevelIsBandOfScore ==
    risk.called =>
        risk.risk_level = ExactRiskLevel(risk.sentiment, risk.conflict_intensity)

\* C2: with |compound| fixed, a larger conflict_intensity never gives a lower
\* risk level, in the order Low < Medium < High < Critical.
C2_MonotoneInIntensity ==
    risk.called =>
        \A c \in {risk.sentiment, FNeg(risk.sentiment)}, i \in IntensityGrid :
            FCmp(i, risk.conflict_intensity) >= 0 =>
                Rank(calculate_risk_level(c, i)) >= Rank(risk.risk_level)

\* a call rated Low whose sentiment is rated Critical at a larger intensity
C2_Witness ==
    /\ risk.called
    /\ risk.risk_level = "Low"
    /\ \E i \in IntensityGrid :
          /\ FCmp(i, risk.conflict_intensity) > 0
          /\ calculate_risk_level(risk.sentiment, i) = "Critical"

-----------------------------------------------------------------------------
(* Claims about the scorer.                                                *)

Keywords == {conflict_words[k] : k \in 1..Len(conflict_words)}

OccursAt(word, text, at) == \A k \in 1..Len(word) : text[at + k] = word[k]

\* the keywords present in the lowercased raw text, as substrings
Hits(text) ==
    {w \in Keywords :
        \E at \in 0..(Len(text) - Len(w)) : OccursAt(w, lower(text), at)}

\* C8: conflict_intensity is min(k/5, 1.0) for k the number of the 10 keywords
\* present in the lowercased raw text as substrings; it is one of 0, 0.2, 0.4,
\* 0.6, 0.8, 1.0, and 0.4 when the only hits are protest and violence.
C8_IntensityIsKeywordDensity ==
    (post.analyzed /\ post.type = "str") =>
        LET k  == Cardinality(Hits(post.text))
            ci == post.result.conflict_intensity
        IN  /\ Cardinality(Keywords) = 10
            /\ ci = IF k >= 5 THEN FromInt(1) ELSE FromRatio(k, 5)
            /\ ci \in {FromRatio(j, 10) : j \in {0, 2, 4, 6, 8, 10}}
            /\ Hits(post.text) = {<<"p", "r", "o", "t", "e", "s", "t">>, <<"v", "i", "o", "l", "e", "n", "c", "e">>} => ci = FromRatio(4, 10)

\* an analyzed text with a capital letter whose only hits are protest and violence
C8_Witness ==
    /\ post.analyzed
    /\ post.type = "str"
    /\ Hits(post.text) = {<<"p", "r", "o", "t", "e", "s", "t">>, <<"v", "i", "o", "l", "e", "n", "c", "e">>}
    /\ post.text # lower(post.text)

-----------------------------------------------------------------------------
(* Claims about the classifier.                                            *)

\* C3: on a predictor on which no train call has returned, every predict and
\* every evaluate fails with the model-not-trained error, with no other error,
\* and returns nothing.
C3_PredictBeforeTrainFails ==
    (reader.pc = "done" /\ reader.inst \notin trained_ok) =>
        reader.outcome = "ModelNotTrained"

\* C4: an artifact written by save_model holds a fitted estimator and a fitted
\* scaler; a save on an untrained predictor writes nothing.
C4_ArtifactIsTrained ==
    file.exists =>
        /\ file.model.ref # "none"
        /\ file.model.est.fitted
        /\ file.scaler.fitted

\* a pair a write leaves behind when it has run to its end: one the predictor
\* had between two writes, a scaler and an estimator fitted on the same
\* training set, or the pair of the artifact being loaded
CompletePair(i, sc, est) ==
    \/ [scaler |-> sc, est |-> OwnModel(est)] \in stable[i]
    \/ sc.fitted /\ est.fitted /\ sc.data = est.data
    \/ /\ writer.pc \in {"load_model", "load_scaler", "load_importance"}
       /\ writer.inst = i
       /\ sc = writer.saved_data.scaler
       /\ OwnModel(est) = writer.saved_data.model

\* C5: a predict or evaluate that runs while a train or a load_model runs on
\* the same predictor uses a complete (scaler, estimator) pair, that of before
\* the write or that of after it, never the new scaler with the old estimator,
\* or it is rejected.
C5_PredictSeesCompletePair ==
    (reader.pc = "done" /\ reader.outcome = "ok") =>
        /\ CompletePair(reader.inst, reader.scaler, reader.labels)
        /\ CompletePair(reader.inst, reader.scaler, reader.probabilities)

\* C6: no step of predict or evaluate changes the estimator, the scaler or the
\* feature importance of any predictor; the scaler of a predictor changes only
\* in train's fit_transform, and in load_model, which replaces it.
C6_PredictLeavesModel ==
    [][/\ reader' # reader =>
              UNCHANGED <<model, base, scaler, feature_importance>>
       /\ scaler' # scaler =>
              writer.pc \in {"train_scale", "train_scaled", "load_scaler"}]_vars

\* an evaluate that returned its metrics on a predictor that train has trained
C6_Witness ==
    /\ reader.pc = "done"
    /\ reader.op = "evaluate"
    /\ reader.outcome = "ok"
    /\ reader.inst \in trained_ok

Trained(i) == model[i].ref # "none" /\ Estimator(i).fitted /\ scaler[i].fitted

\* C7: when load_model has run on any predictor, from the file a trained
\* predictor m saved, that predictor has the estimator, the scaler and the
\* feature importance that m has.
C7_SaveLoadRoundTrip ==
    (writer.pc = "loaded" /\ file_saver # "none" /\ Trained(file_saver)) =>
        Pickled(writer.inst) = Pickled(file_saver)

\* a load on another predictor than the trained one that saved the file
C7_Witness ==
    /\ writer.pc = "loaded"
    /\ file_saver \notin {"none", writer.inst}
    /\ Trained(file_saver)

-----------------------------------------------------------------------------
(* Claims about the early warnings.  The rules are stated in the rationals *)
(* on the values the records hold.                                         *)

\* the number of records of the batch dated later than record j
Later(rows, j) == Cardinality({k \in 1..Len(rows) : rows[k].date > rows[j].date})

\* the 7 most recent records by date, and the 7 records before them
RecentWindow(rows) == {j \in 1..Len(rows) : Later(rows, j) < 7}
PreviousWindow(rows) == {j \in 1..Len(rows) : Later(rows, j) \in 7..13}

RECURSIVE ExactSum(_, _)
ExactSum(rows, window) ==
    IF window = {} THEN FZero
    ELSE LET j == CHOOSE k \in window : TRUE
         IN  ExactAdd(rows[j].vader_compound, ExactSum(rows, window \ {j}))

\* mean(recent) - mean(previous) < -0.3 for windows of 7 records:
\* 10 * (sum(recent) - sum(previous)) < -21
ExactDrop(rows) ==
    LET difference == ExactAdd(ExactSum(rows, RecentWindow(rows)),
                               FNeg(ExactSum(rows, PreviousWindow(rows))))
    IN  FCmp(ExactScale(difference, 10), FromInt(-21)) < 0

Emitted(type) ==
    {j \in 1..Len(early_warnings.warnings) : early_warnings.warnings[j].type = type}

DatedBatch == {"date", "vader_compound"} \subseteq df.columns

\* C9: for a batch of at least 14 dated records, _generate_early_warnings
\* emits exactly one sentiment_drop warning, of severity high, when the mean
\* compound of the 7 most recent records minus the mean compound of the 7
\* records before them is < -0.3, and no sentiment_drop warning otherwise.
C9_SentimentDropRule ==
    (early_warnings.called /\ DatedBatch /\ Len(df.rows) >= 14) =>
        /\ Cardinality(Emitted("sentiment_drop")) =
               IF ExactDrop(df.rows) THEN 1 ELSE 0
        /\ \A j \in Emitted("sentiment_drop") :
               early_warnings.warnings[j].severity = "high"

\* the records with conflict_intensity > 0.7: 10 * conflict_intensity > 7
ExactHigh(batch) ==
    IF "conflict_intensity" \in batch.columns
    THEN {j \in 1..Len(batch.rows) :
             FCmp(ExactScale(batch.rows[j].conflict_intensity, 10), FromInt(7)) > 0}
    ELSE {}

\* C10: for every batch, _generate_early_warnings emits exactly one
\* high_intensity_cluster warning, of severity critical and naming the count,
\* when more than 10 records have conflict_intensity > 0.7, and none when 10
\* or fewer have; a record with conflict_intensity 0.7 is not counted.
C10_IntensityClusterRule ==
    early_warnings.called =>
        LET count == Cardinality(ExactHigh(df))
        IN  /\ Cardinality(Emitted("high_intensity_cluster")) =
                   IF count > 10 THEN 1 ELSE 0
            /\ \A j \in Emitted("high_intensity_cluster") :
                   /\ early_warnings.warnings[j].severity = "critical"
                   /\ early_warnings.warnings[j].message.count = count

\* 11 records above 0.7 and 4 records at 0.7 in a batch, and the one warning
\* that names the 11
C10_Witness ==
    /\ early_warnings.called
    /\ Cardinality(ExactHigh(df)) = 11
    /\ \E j \in 1..Len(df.rows) : df.rows[j].conflict_intensity = HighIntensity
    /\ Cardinality(Emitted("high_intensity_cluster")) = 1

-----------------------------------------------------------------------------
(* More claims about the scorer.                                           *)

\* C12: analyze_sentiment on a value that is not a string does not raise: it
\* returns a scored result, that of the empty string.
C12_NonTextIsScored ==
    (post.analyzed /\ post.type # "str") =>
        /\ "raised" \notin DOMAIN post.result
        /\ post.result = analyze_sentiment(<<>>, post.vader)

ProtestAndViolence == {<<"p", "r", "o", "t", "e", "s", "t">>, <<"v", "i", "o", "l", "e", "n", "c", "e">>}

\* C19 as stated: a post whose only keyword hits are protest and violence
\* gets conflict_intensity >= 0.4, and risk_level High or Critical whenever
\* its compound is <= -0.05.
C19_NegativeScenarioIsHighRisk ==
    (post.analyzed /\ post.type = "str" /\ Hits(post.text) = ProtestAndViolence) =>
        /\ FCmp(post.result.conflict_intensity, FromRatio(4, 10)) >= 0
        /\ FCmp(post.vader, FromRatio(-5, 100)) <= 0
               => post.result.risk_level \in {"High", "Critical"}

\* C19, amended: such a post gets conflict_intensity >= 0.4; its risk_level
\* is High whenever its compound is <= -0.7, and Medium or Low whenever its
\* compound is between -0.65 and -0.05.
C19_VeryNegativeScenarioIsHighRisk ==
    (post.analyzed /\ post.type = "str" /\ Hits(post.text) = ProtestAndViolence) =>
        /\ FCmp(post.result.conflict_intensity, FromRatio(4, 10)) >= 0
        /\ FCmp(post.vader, FromRatio(-7, 10)) <= 0
               => post.result.risk_level = "High"
        /\ (/\ FCmp(post.vader, FromRatio(-65, 100)) >= 0
            /\ FCmp(post.vader, FromRatio(-5, 100)) <= 0)
               => post.result.risk_level \in {"Medium", "Low"}

\* an analyzed post with the hits protest and violence and a compound of -1
C19_Witness ==
    /\ post.analyzed
    /\ post.type = "str"
    /\ Hits(post.text) = ProtestAndViolence
    /\ post.vader = FromInt(-1)
    /\ post.result.risk_level = "High"

-----------------------------------------------------------------------------
(* Claims about the region mapping.                                        *)

\* the regions in the order of their declaration
DeclaredRegions == <<"Nairobi", "Mombasa", "Kisumu", "Nakuru", "Eldoret", "Meru">>

KeywordsOf(region) ==
    LET entry == CHOOSE k \in 1..Len(region_keywords) :
                     region_keywords[k].region = region
    IN  {region_keywords[entry].keywords[j] :
            j \in 1..Len(region_keywords[entry].keywords)}

\* the declared regions one of whose keywords is in the lowercased location
MatchingRegions(chars) ==
    {k \in 1..Len(DeclaredRegions) :
        \E w \in KeywordsOf(DeclaredRegions[k]) :
            \E at \in 0..(Len(chars) - Len(w)) : OccursAt(w, lower(chars), at)}

ExpectedRegion(location) ==
    IF location.type # "str" THEN "Unknown"
    ELSE IF MatchingRegions(location.chars) = {} THEN "Other"
    ELSE DeclaredRegions[CHOOSE k \in MatchingRegions(location.chars) :
                             \A j \in MatchingRegions(location.chars) : k <= j]

\* C11: _map_location_to_region returns Unknown for a value that is not a
\* string, else the first declared region one of whose keywords is a substring
\* of the lowercased location, else Other; 'Nairobi CBD' gives Nairobi and
\* 'xyz123' gives Other.
C11_RegionOfLocation ==
    geo.called =>
        /\ geo.region = ExpectedRegion(geo.location)
        /\ geo.location = Str(<<"N", "a", "i", "r", "o", "b", "i", " ", "C", "B", "D">>) => geo.region = "Nairobi"
        /\ geo.location = Str(<<"x", "y", "z", "1", "2", "3">>) => geo.region = "Other"
        /\ geo.location.type = "NoneType" => geo.region = "Unknown"

\* a mapped location with keywords of two regions
C11_Witness ==
    /\ geo.called
    /\ geo.location.type = "str"
    /\ Cardinality(MatchingRegions(geo.location.chars)) = 2
    /\ geo.region = "Nairobi"

-----------------------------------------------------------------------------
(* Claims about the normalizer.                                            *)

\* C13: clean_text(clean_text(x)) = clean_text(x) for every text x.
C13_CleanTextIdempotent ==
    doc.passes = 2 => doc.again = doc.cleaned

\* the tokens clean_text filters, and the lemmas of those a rule keeps
TokensOf(text) == word_tokenize(scrub(text.chars))

LemmasOfKept(tokens, Kept(_)) ==
    LET kept == SelectSeq(tokens, Kept)
    IN  join([k \in 1..Len(kept) |-> lemmatize(kept[k])])

IsStopword(token) == token \in english_stopwords /\ token \notin conflict_keywords

\* C14 as stated: a token is dropped iff it is a stopword outside the
\* allowlist and longer than 2; every token of length <= 2 is kept.
C14_ShortTokensAreKept ==
    (doc.passes >= 1 /\ doc.text.type = "str") =>
        doc.cleaned = LemmasOfKept(TokensOf(doc.text),
                                   LAMBDA t : ~(IsStopword(t) /\ Len(t) > 2))

\* C14, amended: a token is dropped iff it is a stopword outside the allowlist
\* or its length is <= 2; every other token is kept, then lemmatized.
C14_StopwordsAndShortTokensAreDropped ==
    (doc.passes >= 1 /\ doc.text.type = "str") =>
        doc.cleaned = LemmasOfKept(TokensOf(doc.text),
                                   LAMBDA t : ~(IsStopword(t) \/ Len(t) <= 2))

\* a cleaned text with a stopword, a short token that is no stopword, an
\* allowlist token and a plural among its tokens
C14_Witness ==
    /\ doc.passes >= 1
    /\ doc.text.type = "str"
    /\ LET tokens == TokensOf(doc.text)
       IN  /\ \E k \in 1..Len(tokens) : IsStopword(tokens[k]) /\ Len(tokens[k]) > 2
           /\ \E k \in 1..Len(tokens) : ~IsStopword(tokens[k]) /\ Len(tokens[k]) = 2
           /\ \E k \in 1..Len(tokens) : tokens[k] \in conflict_keywords
    /\ doc.cleaned # <<>>

-----------------------------------------------------------------------------
(* Claims about the monthly report.                                        *)

\* C15: two calls of generate_monthly_report with the same batch and the
\* same (month, year), made at any two times, return identical Reports.
C15_ReportIsDeterministic ==
    (/\ Len(report.calls) = 2
     /\ report.calls[1].input = report.calls[2].input
     /\ report.calls[1].month = report.calls[2].month
     /\ report.calls[1].year = report.calls[2].year)
        => report.calls[1].result = report.calls[2].result

\* C16: for a batch that lacks one of the columns region, date,
\* vader_compound, conflict_intensity or risk_level, generate_monthly_report
\* does not fail.
C16_MissingColumnIsTolerated ==
    \A j \in 1..Len(report.calls) :
        (/\ report.calls[j].input.rows # <<>>
         /\ \E c \in ReportColumns : c \notin report.calls[j].input.columns)
            => report.calls[j].result.raised = "no"

-----------------------------------------------------------------------------
(* Claims about the feature engineer.                                      *)

\* C17: when one record of a batch given to create_temporal_features has a
\* malformed date, the call still completes and returns the other records.
C17_MalformedDateDoesNotAbort ==
    (/\ fe.called = "create_temporal_features"
     /\ "created_at" \in fe.before.columns
     /\ \E j \in 1..Len(fe.before.rows) : ~IsDate(fe.before.rows[j].created_at))
        => fe.result.raised = "no"

\* C20: after a call of a method of FeatureEngineer the frame given holds
\* what it held before the call, and a frame returned is another frame.
C20_InputIsNotMutated ==
    fe.called # "none" =>
        /\ fe.heap[fe.input] = fe.before
        /\ fe.result.raised = "no" => fe.result.df # fe.input

\* a method has returned a frame with new columns and the rows in another
\* order than in the frame given
C20_Witness ==
    /\ fe.called = "create_lag_features"
    /\ fe.result.raised = "no"
    /\ fe.heap[fe.result.df].columns # fe.before.columns
    /\ \E j \in 1..Len(fe.before.rows) :
           fe.heap[fe.result.df].rows[j].date # fe.before.rows[j].date
    /\ fe.heap[fe.input] = fe.before

-----------------------------------------------------------------------------
(* Claims about the ensemble.                                              *)

\* the exact product and the exact sum of floats, as dyadic rationals
ExactMul(x, y) ==
    IF x.m = <<>> \/ y.m = <<>> THEN FZero
    ELSE Dyadic(x.neg # y.neg, BigMul(x.m, y.m), x.e + y.e)

RECURSIVE ExactSumFrom(_, _, _)
ExactSumFrom(s, i, acc) ==
    IF i > Len(s) THEN acc ELSE ExactSumFrom(s, i + 1, ExactAdd(acc, s[i]))

\* 2^-20, less than 1e-6
Tolerance == Dyadic(FALSE, <<1>>, -20)

\* |x - y| <= Tolerance * scale, exactly
Near(x, y, scale) ==
    FCmp(FAbs(ExactAdd(x, FNeg(y))), ExactMul(Tolerance, scale)) <= 0

\* entry c of value is sum(w[i] * p[i][c]) / sum(w[i]) up to the tolerance
IsWeightedAverage(value, probas) ==
    LET total == ExactSumFrom(VotingWeights, 1, FZero)
    IN  \A c \in 1..Len(value) :
            Near(ExactMul(value[c], total),
                 ExactSumFrom([i \in 1..Len(Learners) |->
                                  ExactMul(VotingWeights[i], probas[i][c])], 1, FZero),
                 total)

SumsToOne(vector) == SumFrom(vector, 1, FZero) = FromInt(1)

ProbaReturned ==
    /\ ens.calls # <<>>
    /\ ens.calls[1].op = "predict_proba"
    /\ ens.calls[1].result.raised = "no"

\* C18 as stated: after fit, predict_proba(x) is the weight-normalized
\* average of the five base learners' vectors with the weights 1.0, 1.2, 1.1,
\* 0.8, 0.9; it has len(classes_) entries, which sum to 1 whenever each base
\* learner's vector sums to 1.
C18_ProbaSumsToOne ==
    ProbaReturned =>
        LET call == ens.calls[1].result
        IN  /\ IsWeightedAverage(call.value, call.probas)
            /\ Len(call.value) = Len(ens.self.classes_)
            /\ (\A i \in 1..Len(Learners) : SumsToOne(call.probas[i]))
                   => SumsToOne(call.value)

\* C18, amended: the entries sum to 1 within 1e-6 whenever each base
\* learner's vector sums to 1.
C18_ProbaSumsToAboutOne ==
    ProbaReturned =>
        LET call == ens.calls[1].result
        IN  /\ IsWeightedAverage(call.value, call.probas)
            /\ Len(call.value) = Len(ens.self.classes_)
            /\ (\A i \in 1..Len(Learners) : SumsToOne(call.probas[i]))
                   => Near(SumFrom(call.value, 1, FZero), FromInt(1), FromInt(1))

\* predict_proba has returned for base learners that do not agree, each of
\* whose vectors sums to 1
C18_Witness ==
    /\ ProbaReturned
    /\ \A i \in 1..Len(Learners) : SumsToOne(ens.calls[1].result.probas[i])
    /\ \E i, j \in 1..Len(Learners) :
           ens.calls[1].result.probas[i] # ens.calls[1].result.probas[j]
    /\ Len(ens.self.classes_) = 3

-----------------------------------------------------------------------------
(* More claims about the early warnings.                                   *)

Range(s) == {s[j] : j \in 1..Len(s)}

\* the positions in df_sorted of the records that df_sorted[...].tail(7) and
\* df_sorted[...].tail(14).head(7) hold
WindowPositions(n) ==
    LET positions == [j \in 1..n |-> j]
    IN  [recent   |-> Range(tail(positions, 7)),
         previous |-> Range(head(tail(positions, 14), 7))]

\* C21: in the sentiment-drop rule the two windows are disjoint for every
\* batch size: the recent window is the last 7 records by date, the previous
\* window is exactly the records 8 to 14 back from the end, and no record is
\* in both, also when the batch has fewer than 14 records.
C21_WindowsAreDisjoint ==
    (early_warnings.called /\ DatedBatch) =>
        LET n      == Len(df.rows)
            window == WindowPositions(n)
        IN  /\ window.recent = {j \in 1..n : n - j \in 0..6}
            /\ window.previous = {j \in 1..n : n - j \in 7..13}
            /\ window.recent \cap window.previous = {}

-----------------------------------------------------------------------------
(* More claims about the ensemble.                                         *)

\* predict or predict_proba was called on an ensemble that was never fitted
CalledBeforeFit ==
    /\ ens.calls # <<>>
    /\ ens.calls[1].op \in {"predict", "predict_proba"}
    /\ ens.self.ensemble = None

\* C22: predict or predict_proba before any fit fails with the
\* model-not-trained error and with no other error type, and classes_ is
\* exposed (not None) exactly after a successful fit.
C22_EnsembleUntrainedRule ==
    /\ CalledBeforeFit => ens.calls[1].result.raised = "ModelNotTrained"
    /\ (ens.self.classes_ # None) <=> (ens.self.ensemble # None)

-----------------------------------------------------------------------------
(* Claims about the feature selection.                                     *)

\* the names the selection must return for the columns of a batch
ExpectedFeatures(columns) ==
    LET Within(word, col) == \E at \in 0..(Len(col) - Len(word)) : OccursAt(word, col, at)
    IN  {col \in Range(core_feature_columns) : col \in Range(columns)}
        \cup {col \in Range(columns) : Len(col) >= 7 /\ OccursAt(<<"r", "e", "g", "i", "o", "n", "_">>, col, 0)}
        \cup {col \in Range(columns) : Within(<<"l", "a", "g">>, col) \/ Within(<<"r", "o", "l", "l", "i", "n", "g">>, col)}

\* C23: prepare_features never fails on an absent optional feature: the
\* returned feature list holds exactly the columns of the fixed core list
\* that are present in the batch, plus the batch's columns whose name starts
\* with region_ and those whose name contains lag or rolling; every returned
\* feature name is a column of the batch.
C23_FeaturesArePresentColumns ==
    prep.called =>
        /\ <<"c", "o", "n", "f", "l", "i", "c", "t", "_", "r", "i", "s", "k">> \in Range(prep.columns) => prep.result.raised = "no"
        /\ prep.result.raised = "no" =>
               /\ Range(prep.result.feature_columns) = ExpectedFeatures(prep.columns)
               /\ Range(prep.result.feature_columns) \subseteq Range(prep.columns)

\* a batch with a core column, a region column, a rolling column and the
\* target, and without the other ten core columns: three features returned
C23_Witness ==
    /\ prep.called
    /\ prep.result.raised = "no"
    /\ Range(prep.columns) = {<<"p", "o", "l", "a", "r", "i", "t", "y", "_", "t", "b">>, <<"r", "e", "g", "i", "o", "n", "_", "N", "a", "i", "r", "o", "b", "i">>,
                              <<"v", "a", "d", "e", "r", "_", "c", "o", "m", "p", "o", "u", "n", "d", "_", "r", "o", "l", "l", "i", "n", "g", "_", "m", "e", "a", "n", "_", "7">>, <<"c", "o", "n", "f", "l", "i", "c", "t", "_", "r", "i", "s", "k">>}
    /\ Len(prep.result.feature_columns) = 3

-----------------------------------------------------------------------------
(* Claims about the lag and rolling features.                              *)

LagReturned == fe.called = "create_lag_features" /\ fe.result.raised = "no"

\* the records of the group of record j that are not after it in the frame
GroupBefore(rows, j) == {i \in 1..j : rows[i].region = rows[j].region}

\* n for the n-th record of its group
PlaceInGroup(rows, j) == Cardinality(GroupBefore(rows, j))

\* the number of the records of a frame that hold the cells of a record r
Copies(rows, r) ==
    Cardinality({j \in 1..Len(rows) : \A c \in DOMAIN r : rows[j][c] = r[c]})

\* the lag and rolling features of the lag L are those the claim names
LagFeaturesOf(rows, L) ==
    LET lag_L          == "vader_compound_lag_" \o ToString(L)
        rolling_mean_L == "vader_compound_rolling_mean_" \o ToString(L)
    IN  \A j \in 1..Len(rows) :
            LET n      == PlaceInGroup(rows, j)
                window == {i \in GroupBefore(rows, j) : n - PlaceInGroup(rows, i) < L}
            IN  /\ rows[j][lag_L] =
                       IF n > L
                       THEN Num(rows[CHOOSE i \in GroupBefore(rows, j) :
                                         PlaceInGroup(rows, i) = n - L].vader_compound)
                       ELSE NaN
                /\ Cardinality(window) = Min(n, L)
                /\ rows[j][rolling_mean_L] =
                       Num(FDivInt(ExactSum(rows, window), Cardinality(window)))
                /\ L = 1 => rows[j][rolling_mean_L] = Num(rows[j].vader_compound)

\* C24: create_lag_features orders the records of each group by date
\* ascending and, for every lag L of lag_periods, sets <col>_lag_L of the
\* n-th record of a group to the value of the (n-L)-th record of the group
\* (null for the first L records) and <col>_rolling_mean_L to the mean of the
\* last min(n, L) values of the group up to the record: the rolling mean is
\* never null, and rolling_mean_1 is the value itself.
C24_LagAndRollingFeatures ==
    LagReturned =>
        LET rows == fe.heap[fe.result.df].rows
        IN  /\ Len(rows) = Len(fe.before.rows)
            /\ \A j \in 1..Len(fe.before.rows) :
                   Copies(rows, fe.before.rows[j]) = Copies(fe.before.rows, fe.before.rows[j])
            /\ \A j \in 1..Len(rows) :
                   \A i \in GroupBefore(rows, j) : rows[i].date <= rows[j].date
            /\ \E periods \in LagPeriods :
                   /\ fe.heap[fe.result.df].columns =
                          fe.before.columns
                          \cup {"vader_compound_lag_" \o ToString(periods[k]) :
                                   k \in 1..Len(periods)}
                          \cup {"vader_compound_rolling_mean_" \o ToString(periods[k]) :
                                   k \in 1..Len(periods)}
                   /\ \A k \in 1..Len(periods) : LagFeaturesOf(rows, periods[k])

\* the call has returned for a batch given out of the order of its dates,
\* with records of two regions and a group of three records, for the lags 1
\* and 2: the third record of the group has a lag_2 value
C24_Witness ==
    /\ LagReturned
    /\ "vader_compound_lag_2" \in fe.heap[fe.result.df].columns
    /\ \E j \in 1..Len(fe.before.rows) :
           fe.heap[fe.result.df].rows[j].date # fe.before.rows[j].date
    /\ \E j \in 1..Len(fe.heap[fe.result.df].rows) :
           /\ PlaceInGroup(fe.heap[fe.result.df].rows, j) = 2
           /\ ~fe.heap[fe.result.df].rows[j]["vader_compound_lag_1"].nan
           /\ \E i \in 1..(j - 1) :
                  fe.heap[fe.result.df].rows[i].region
                      # fe.heap[fe.result.df].rows[j].region

-----------------------------------------------------------------------------
(* Claims about the regional analysis of the report.                       *)

\* the place of a region among the groups of the batch
PlaceOfRegion(region) == CHOOSE k \in 1..Len(RankedRegions) : RankedRegions[k] = region

\* the share of the records rated High or Critical is greater in group a than
\* in group b, as a comparison of the fractions themselves
GreaterShare(a, b) == a.high * b.size > b.high * a.size

\* C25: in every report top_high_risk_regions holds the min(3, number of
\* regions) regions with the largest percentage of records rated High or
\* Critical, in descending order of that percentage, and recommendations
\* holds one string per region of top_high_risk_regions, in the same order.
C25_TopRegionsByPercentage ==
    (ranking.called /\ ranking.result.raised = "no") =>
        LET groups == ranking.groups
            top    == ranking.result.top_high_risk_regions
            Top    == {top[i] : i \in 1..Len(top)}
        IN  /\ Len(top) = Min(3, Len(groups))
            /\ Cardinality(Top) = Len(top)
            /\ Top \subseteq {RankedRegions[k] : k \in 1..Len(groups)}
            /\ \A k \in 1..Len(groups) :
                   RankedRegions[k] \notin Top =>
                       \A i \in 1..Len(top) :
                           ~GreaterShare(groups[k], groups[PlaceOfRegion(top[i])])
            /\ \A i \in 1..Len(top) : \A j \in (i + 1)..Len(top) :
                   ~GreaterShare(groups[PlaceOfRegion(top[j])],
                                 groups[PlaceOfRegion(top[i])])
            /\ Len(ranking.result.recommendations) = Len(top)
            /\ \A i \in 1..Len(top) :
                   ranking.result.recommendations[i] = recommendation(top[i])

-----------------------------------------------------------------------------
(* More claims about the predictor.                                        *)

\* a step in which the train call of the writer raises
TrainRaises ==
    /\ writer.pc \in {"train_scale", "train_scaled", "train_get", "train_fit"}
    /\ writer'.pc = "idle"

\* the attributes of the predictor of the call after the step
AttributesAfter ==
    [model |-> model'[writer.inst], base |-> base'[writer.inst],
     scaler |-> scaler'[writer.inst],
     feature_importance |-> feature_importance'[writer.inst]]

\* C26: a failed train is atomic: when train raises, the estimator, the
\* scaler and the feature importance of the instance are the same as before
\* the call; an Untrained instance stays Untrained and a Trained instance
\* keeps a scaler and an estimator fitted on the same training data.
C26_FailedTrainIsAtomic ==
    [][TrainRaises => AttributesAfter = writer.before]_vars


\* C27: after fit has succeeded every base learner held in self.models is
\* fitted, and get_model_performance returns without failing.
C27_BaseLearnersAreFitted ==
    ens.self.ensemble.type = "VotingClassifier" =>
        /\ Len(ens.self.models) = Len(Learners)
        /\ \A i \in 1..Len(ens.self.models) : ens.self.models[i].fitted
        /\ \A k \in 1..Len(ens.calls) :
               ens.calls[k].op = "get_model_performance" =>
                   ens.calls[k].result.raised = "no"

-----------------------------------------------------------------------------
(* More claims about the risk level of a post.                             *)

\* the score of a post of the intensity c with hits keywords, and the level
\* of the score, are within the bounds named
RiskWithinBounds(score, c, hits) ==
    /\ FCmp(score, FZero) >= 0
    /\ FCmp(score, FromInt(1)) <= 0
    /\ hits = 0 =>
           /\ c = FZero
           /\ FCmp(score, FromRatio(4, 10)) <= 0
           /\ LevelOfScore(score) \in {"Low", "Medium"}
    /\ LevelOfScore(score) = "Critical" =>
           /\ FCmp(c, FromRatio(6, 10)) >= 0
           /\ hits >= 3
    /\ LevelOfScore(score) = "High" =>
           /\ FCmp(c, FromRatio(2, 10)) >= 0
           /\ hits >= 1

\* C28: a post with no conflict keyword is never rated High or Critical: for
\* every compound in [-1, 1], conflict_intensity = 0 gives risk_score <= 0.4
\* and a risk_level of Low or Medium; risk_score stays in [0, 1], Critical
\* requires conflict_intensity >= 0.6 (at least 3 keyword hits) and High
\* requires conflict_intensity >= 0.2.
C28_NoKeywordIsNeverHighRisk ==
    (post.analyzed /\ post.type = "str") =>
        /\ post.result.risk_level =
               LevelOfScore(risk_score(post.vader, post.result.conflict_intensity))
        /\ RiskWithinBounds(risk_score(post.vader, post.result.conflict_intensity),
                            post.result.conflict_intensity, conflict_count(post.text))
        \* every text is analyzed with the compound 0 too: there its intensity
        \* is taken with every compound of the grid
        /\ post.vader = FZero =>
               \A s \in SentimentGrid :
                   RiskWithinBounds(risk_score(s, post.result.conflict_intensity),
                                    post.result.conflict_intensity,
                                    conflict_count(post.text))

\* a post with text and no keyword and the compound -1 has been rated Medium
C28_Witness ==
    /\ post.analyzed
    /\ post.type = "str"
    /\ post.text # <<>>
    /\ conflict_count(post.text) = 0
    /\ post.vader = FromInt(-1)
    /\ post.result.risk_level = "Medium"

-----------------------------------------------------------------------------
(* More claims about the monthly report.                                   *)

\* C29: generate_monthly_report leaves the caller's batch unchanged: after
\* the call the batch has the same columns and the same values as before
\* it, also when it has a date column.
C29_ReportLeavesBatchUnchanged ==
    report.calls # <<>> => report.df = report.calls[Len(report.calls)].input

-----------------------------------------------------------------------------
(* Claims about small batches given to the early warnings.                 *)

\* the compound scores of the batch in the order of the dates
SortedCompound == Column(sort_values(df.rows), "vader_compound")

\* C30: for a batch of 7 or fewer records, the empty batch too,
\* _generate_early_warnings returns and emits no sentiment_drop warning: the
\* recent and the previous window hold the same records, so their means are
\* equal, or both undefined, and the drop condition is false.
C30_NoDropWarningForSmallBatch ==
    (early_warnings.called /\ Len(df.rows) <= 7) =>
        /\ Emitted("sentiment_drop") = {}
        /\ DatedBatch =>
               /\ tail(SortedCompound, 7) = head(tail(SortedCompound, 14), 7)
               /\ \A summation \in Summations :
                      /\ mean(tail(SortedCompound, 7), summation)
                             = mean(head(tail(SortedCompound, 14), 7), summation)
                      /\ mean(tail(SortedCompound, 7), summation).nan
                             <=> df.rows = <<>>

\* the call has returned for a batch of 7 dated records, given out of the
\* order of their dates, whose 4 latest records have a compound more than
\* 0.3 below that of the 3 records before them
C30_Witness ==
    /\ early_warnings.called
    /\ DatedBatch
    /\ Len(df.rows) = 7
    /\ df.rows[1].date > df.rows[7].date
    /\ \A i, j \in 1..7 :
           (df.rows[i].date <= 3 /\ df.rows[j].date > 3) =>
               FLt(df.rows[j].vader_compound,
                   FSub(df.rows[i].vader_compound, SignificantDrop))

\* the call has returned for the empty batch with the two columns
C30_WitnessEmpty ==
    early_warnings.called /\ DatedBatch /\ df.rows = <<>>

=============================================================================
